---- MODULE Spec2Model ----
(***************************************************************************)
(* Model of the homebox import engine (backend/api/views.py):              *)
(* ItemViewSet.import_json and ItemViewSet.import_csv over the entity      *)
(* store of backend/api/models.py.  Every database statement of a handler  *)
(* is one step of the request worker that runs it, so that requests of     *)
(* several workers interleave between statements (the handlers run in      *)
(* autocommit mode: no transaction.atomic, no ATOMIC_REQUESTS).            *)
(***************************************************************************)
EXTENDS Integers, Sequences, FiniteSets, TLC

\* ------------------------------------------------------------------ bounds
Users == {"u1", "u2"}
Procs == {"p1", "p2"}
Kinds == {"Location", "Label", "Currency"}
\* records of one import document
MaxRecords == 2
\* import/export calls begun in one behaviour
MaxCalls == 2
\* records of all import documents of one behaviour together
MaxImported == 12
\* rows of one table inserted through its plain create endpoint
MaxPlain == 2
\* files of one upload, and Attachment rows of one behaviour
MaxFiles == 2
MaxAttachments == 3

\* A well-formed UUID that no Item has and that uuid4() never returns.
UnknownUuid == 99

\* A JSON id value that is no UUID (for instance "abc"): UUIDField.to_python
\* rejects it with ValidationError; no row ever has it.
BadUuid == 0

\* Field defaults of the models.
DefaultColor == "#3498db"
DefaultName == ""
DefaultQuantity == 1

VARIABLES
    items,        \* Item rows: id -> row
    item_labels,  \* the Item.labels through table: set of <<item id, label id>>
    refs,         \* Location / Label / Currency rows: kind -> (id -> row)
    logs,         \* ImportLog rows, in creation order (the index is the id)
    seq,          \* fresh primary keys handed out so far, per table
    req,          \* per worker: the request it is serving and its local variables
    calls,        \* number of calls begun
    hist,         \* history: the calls that have returned, in order
    attachments   \* Attachment rows, in creation order (the index is the id)

vars == <<items, item_labels, refs, logs, seq, req, calls, hist, attachments>>

\* ----------------------------------------------------------------- helpers
Max(a, b) == IF a > b THEN a ELSE b
Min(a, b) == IF a < b THEN a ELSE b

\* f with the mapping k -> v added or replaced
Put(f, k, v) == [x \in DOMAIN f \cup {k} |-> IF x = k THEN v ELSE f[x]]

\* f without the key k
Drop(f, k) == [x \in DOMAIN f \ {k} |-> f[x]]

\* QuerySet.filter(user=u, <natural key>=k) on a Location/Label/Currency table
Matching(tbl, u, k) == {i \in DOMAIN tbl : tbl[i].user = u /\ tbl[i].key = k}

\* Item(user=request.user): the field defaults
\* Of the scalar columns the model keeps one of each kind: important (the
\* booleans), purchase_price (the decimals, in hundredths), purchase_date (the
\* dates, as ISO text) and notes (the nullable texts); {} is NULL.  created_at
\* is the number of the call that inserted the row (0: before the behaviour).
NewItem(u) ==
    [user |-> u, created_at |-> 0, name |-> DefaultName, quantity |-> DefaultQuantity,
     important |-> FALSE, purchase_price |-> {}, purchase_date |-> {},
     notes |-> {},
     location |-> {}, purchase_currency |-> {}, sold_currency |-> {},
     insured_currency |-> {}]

\* the local variable item before the record has an instance (item = None)
NoItem == [adding |-> FALSE, id |-> 0, row |-> NewItem("u1")]

\* the ids of the Items of user u
OwnedBy(its, u) == {i \in DOMAIN its : its[i].user = u}

\* the Attachment rows of Item i, each with its id
AttachmentsOf(atts, i) ==
    {[id |-> a, row |-> atts[a]] : a \in {x \in DOMAIN atts : atts[x].item = i}}

\* the labels of Item i in the through table
LabelsOf(il, i) == {x[2] : x \in {y \in il : y[1] = i}}

\* The local variables of a worker that serves no request.  The fields from
\* saved on are history: what the record in progress has written (saved), the
\* row and labels its Item had when it was fetched (before), the counters and
\* the user's Items when the record started (at), the user's Items when the
\* call started (owned) and the outcome of every record processed so far.
IdleReq ==
    [pc |-> "idle", user |-> "u1", fmt |-> "json", call |-> 0, payload |-> "",
     iterable |-> TRUE, doc |-> <<>>, idx |-> 0, log |-> 0,
     items_created |-> 0, items_updated |-> 0, items_failed |-> 0,
     error_messages |-> <<>>, plan |-> <<>>,
     location |-> {}, labels |-> <<>>,
     purchase_currency |-> {}, sold_currency |-> {}, insured_currency |-> {},
     item |-> NoItem,
     saved |-> FALSE, before |-> [row |-> NoItem.row, labels |-> {}, attachments |-> {}],
     at |-> [created |-> 0, updated |-> 0, owned |-> {}],
     owned |-> {}, outcome |-> <<>>]

\* The store when the behaviour starts: each user has created one Item through
\* POST /items/ (ItemViewSet.perform_create), u1 the Item 1 and u2 the Item 2.
Init ==
    /\ items = <<[NewItem("u1") EXCEPT !.name = "tv"], [NewItem("u2") EXCEPT !.name = "tv"]>>
    /\ item_labels = {}
    /\ refs = [k \in Kinds |-> << >>]
    /\ logs = << >>
    /\ seq = [Item |-> 2, Location |-> 0, Label |-> 0, Currency |-> 0]
    /\ req = [p \in Procs |-> IdleReq]
    /\ calls = 0
    /\ hist = << >>
    /\ attachments = << >>

\* ------------------------------------------------------------ import logs
\* ImportLog.objects.create(...) of a handler
NewLog(r, type, status, err, done) ==
    [call |-> r.call, user |-> r.user, import_type |-> type, status |-> status,
     items_created |-> 0, items_updated |-> 0, items_failed |-> 0,
     error_message |-> err, completed_at |-> done]

\* the first n elements of a sequence (s[:n])
Take(s, n) == SubSeq(s, 1, Min(n, Len(s)))

ErrorLimit == 10

\* an error text that never states how many messages were left out
ErrorTextNoCount(msgs) == [msgs |-> Take(msgs, ErrorLimit), more |-> 0]

\* '\n'.join(error_messages[:10]) + ('...and N more errors' if len > 10 else '')
ErrorText(msgs) ==
    [msgs |-> Take(msgs, ErrorLimit), more |-> Max(Len(msgs) - ErrorLimit, 0)]

\* the status written when the loop over the records has ended
FinalStatus(r) ==
    IF r.items_failed = 0 THEN "Success"
    ELSE IF r.fmt = "json"
         THEN (IF r.items_created + r.items_updated > 0
               THEN "Partial Success" ELSE "Failed")
         ELSE (IF r.items_created > 0 THEN "Partial Success" ELSE "Failed")

\* what the caller and the history see of a call that has returned
Returned(r, http, its) ==
    [call |-> r.call, user |-> r.user, fmt |-> r.fmt, payload |-> r.payload,
     doc |-> r.doc, http |-> http, created |-> r.items_created, updated |-> r.items_updated,
     failed |-> r.items_failed, errors |-> Take(r.error_messages, ErrorLimit),
     nerrors |-> Len(r.error_messages),
     owned |-> r.owned, outcome |-> r.outcome,
     nitems |-> Cardinality(OwnedBy(its, r.user))]

\* the records handed to import calls so far
RECURSIVE SumLen(_)
SumLen(h) == IF h = << >> THEN 0 ELSE Len(Head(h).doc) + SumLen(Tail(h))

RECURSIVE InFlight(_)
InFlight(P) ==
    IF P = {} THEN 0
    ELSE LET p == CHOOSE x \in P : TRUE IN Len(req[p].doc) + InFlight(P \ {p})

\* a call may begin while the bounds of the model leave room for it
Room(doc) ==
    /\ calls < MaxCalls
    /\ SumLen(hist) + InFlight(Procs) + Len(doc) <= MaxImported

\* ------------------------------------------------- per-record bookkeeping
\* history: how the record in progress ended
Outcome(r, raised) ==
    [raised |-> raised, exc |-> "", item |-> r.item, saved |-> r.saved, before |-> r.before,
     dcreated |-> r.items_created - r.at.created,
     dupdated |-> r.items_updated - r.at.updated,
     owned |-> r.at.owned]

\* the record was processed without an exception: on to the next one
\* (import_csv counts the row as created only here, line 706)
Complete(r) ==
    LET c == IF r.fmt = "csv" THEN r.items_created + 1 ELSE r.items_created
    IN  [r EXCEPT !.pc = "loop", !.idx = @ + 1, !.plan = << >>,
                  !.items_created = c,
                  !.outcome = Append(@, Outcome([r EXCEPT !.items_created = c], FALSE))]

\* the statements left to run for this record, or the end of the record
\* a handler whose except clause ends the loop instead of continuing
ExceptAbort(r, exc) ==
    [r EXCEPT !.pc = "finish", !.plan = << >>,
              !.items_failed = @ + 1,
              !.error_messages = Append(@, [row |-> r.idx, exc |-> exc])]

Cont(r, plan) == IF plan = << >> THEN Complete(r) ELSE [r EXCEPT !.plan = plan]

\* except Exception as e: items_failed += 1; error_messages.append(...)
ExceptRecord(r, exc) ==
    [r EXCEPT !.pc = "loop", !.idx = @ + 1, !.plan = << >>,
              !.items_failed = @ + 1,
              !.error_messages =
                  Append(@, [row |-> IF r.fmt = "csv"
                                     THEN r.items_created + r.items_failed + 1
                                     ELSE 0,
                             exc |-> exc])]

\* a statement of the record's try block raises exc
Raise(r, exc) ==
    ExceptRecord([r EXCEPT !.outcome = Append(@, [Outcome(r, TRUE) EXCEPT !.exc = exc])], exc)

\* ------------------------------------------------------------ import_json
Op(op, kind, key, attr, slot, id) ==
    [op |-> op, kind |-> kind, key |-> key, attr |-> attr, slot |-> slot, id |-> id]

\* get_or_create of one currency slot of a JSON record
JsonCurrencyOps(rec, slot) ==
    IF rec[slot] = {} THEN << >>
    ELSE LET c == CHOOSE x \in rec[slot] : TRUE
         IN  <<Op("get", "Currency", c.code, c.symbol, slot, 0)>>

\* the database statements import_json runs for one record, in code order
JsonPlan(rec) ==
    (IF rec.location = {} THEN << >>
     ELSE <<Op("get", "Location", CHOOSE n \in rec.location : TRUE, "", "location", 0)>>)
    \o [i \in 1..Len(rec.labels) |->
          Op("get", "Label", rec.labels[i].name, rec.labels[i].color, "labels", 0)]
    \o JsonCurrencyOps(rec, "purchase_currency")
    \o JsonCurrencyOps(rec, "sold_currency")
    \o JsonCurrencyOps(rec, "insured_currency")
    \o <<Op("lookup", "Item", "", "", "", 0), Op("save", "Item", "", "", "", 0)>>

\* the local variables at the start of a record's try block
StartRecord(r, plan) ==
    [r EXCEPT !.pc = "rec", !.plan = plan, !.location = {}, !.labels = << >>,
              !.purchase_currency = {}, !.sold_currency = {},
              !.insured_currency = {}, !.item = NoItem,
              !.saved = FALSE, !.before = IdleReq.before,
              !.at = [created |-> r.items_created, updated |-> r.items_updated,
                      owned |-> OwnedBy(items, r.user)]]

\* import_json up to the loop: parse, reject empty input, create the log
ImportJsonBegin(p, u, payload, doc) ==
    /\ req[p].pc = "idle"
    /\ Room(doc)
    /\ calls' = calls + 1
    /\ LET r == [IdleReq EXCEPT !.user = u, !.fmt = "json", !.call = calls + 1,
                                !.payload = payload,
                                !.doc = doc, !.idx = 1, !.log = Len(logs) + 1,
                                !.iterable = (payload = "list"),
                                !.owned = OwnedBy(items, u)]
       IN CASE payload = "unparseable" ->
                 \* json.loads raises: the outer except logs the failure
                 /\ logs' = Append(logs, NewLog(r, "JSON Import", "Failed",
                                      ErrorText(<<[row |-> 0, exc |-> "JSONDecodeError"]>>), TRUE))
                 /\ hist' = Append(hist, Returned(r, 400, items))
                 /\ req' = req
            [] payload = "empty" ->
                 \* if not json_data: return 400
                 /\ logs' = logs
                 /\ hist' = Append(hist, Returned(r, 400, items))
                 /\ req' = req
            [] OTHER ->
                 /\ logs' = Append(logs, NewLog(r, "JSON Import", "In Progress",
                                                ErrorText(<< >>), FALSE))
                 /\ hist' = hist
                 /\ req' = [req EXCEPT ![p] = [r EXCEPT !.pc = "loop"]]
    /\ UNCHANGED <<items, item_labels, refs, seq, attachments>>

\* for item_data in json_data: the next record, or the end of the loop
ImportJsonLoop(p) ==
    LET r == req[p] IN
    /\ r.pc = "loop"
    /\ r.fmt = "json"
    /\ IF ~r.iterable
       THEN \* TypeError out of the for statement: the outer except creates a
            \* second log and returns; the first log is left as it is
            /\ logs' = Append(logs, NewLog(r, "JSON Import", "Failed",
                                 ErrorText(<<[row |-> 0, exc |-> "TypeError"]>>), TRUE))
            /\ hist' = Append(hist, Returned(r, 400, items))
            /\ req' = [req EXCEPT ![p] = IdleReq]
       ELSE /\ UNCHANGED <<logs, hist>>
            /\ req' = [req EXCEPT ![p] =
                  IF r.idx > Len(r.doc) THEN [r EXCEPT !.pc = "finish"]
                  ELSE IF ~r.doc[r.idx].map
                       THEN \* item_data.pop on a value that is no dict
                            Raise(StartRecord(r, << >>), "AttributeError")
                       ELSE StartRecord(r, JsonPlan(r.doc[r.idx]))]
    /\ UNCHANGED <<items, item_labels, refs, seq, calls, attachments>>

\* a variant of the log update that writes the oldest log of the store
ImportFinishFirst(p) ==
    LET r == req[p] IN
    /\ r.pc = "finish"
    /\ logs' = [logs EXCEPT ![1] =
                  [@ EXCEPT !.status = FinalStatus(r),
                            !.items_created = r.items_created,
                            !.items_updated = r.items_updated,
                            !.items_failed = r.items_failed,
                            !.error_message = ErrorText(r.error_messages),
                            !.completed_at = TRUE]]
    /\ hist' = Append(hist, Returned(r, IF r.items_failed = 0 THEN 201 ELSE 207, items))
    /\ req' = [req EXCEPT ![p] = IdleReq]
    /\ UNCHANGED <<items, item_labels, refs, seq, calls, attachments>>

\* the log update and the response after the loop (both handlers)
ImportFinish(p) ==
    LET r == req[p] IN
    /\ r.pc = "finish"
    /\ logs' = [logs EXCEPT ![r.log] =
                  [@ EXCEPT !.status = FinalStatus(r),
                            !.items_created = r.items_created,
                            !.items_updated = r.items_updated,
                            !.items_failed = r.items_failed,
                            !.error_message = ErrorText(r.error_messages),
                            !.completed_at = TRUE]]
    /\ hist' = Append(hist, Returned(r, IF r.items_failed = 0 THEN 201 ELSE 207, items))
    /\ req' = [req EXCEPT ![p] = IdleReq]
    /\ UNCHANGED <<items, item_labels, refs, seq, calls, attachments>>

\* ------------------------------------------- statements of one record
\* Step(p, f): worker p runs the statement at the head of its plan
Head1(p) == Head(req[p].plan)

AtOp(p, op) ==
    /\ req[p].pc = "rec"
    /\ req[p].plan # << >>
    /\ Head1(p).op = op

\* the resolved entity is kept in the local variable of its slot
Bind(r, slot, id) ==
    IF slot = "labels" THEN [r EXCEPT !.labels = Append(@, id)]
    ELSE [r EXCEPT ![slot] = {id}]

\* a lookup that never finds the row (the insert always follows)
GetOutcomeMiss(tbl, u, key) == [found |-> "none", id |-> 0]

\* get_or_create, first half: Model.objects.get(user=..., <key>=...)
GetOutcome(tbl, u, key) ==
    LET m == Matching(tbl, u, key)
    IN  IF m = {} THEN [found |-> "none", id |-> 0]
        ELSE IF Cardinality(m) = 1
             THEN [found |-> "one", id |-> CHOOSE i \in m : TRUE]
             ELSE [found |-> "many", id |-> 0]

RefGet(p) ==
    LET r == req[p]
        o == Head1(p)
        g == GetOutcome(refs[o.kind], r.user, o.key)
    IN
    /\ AtOp(p, "get")
    /\ req' = [req EXCEPT ![p] =
          CASE g.found = "one"  -> Cont(Bind(r, o.slot, g.id), Tail(r.plan))
            [] g.found = "none" -> [r EXCEPT !.plan = <<[o EXCEPT !.op = "create"]>> \o Tail(@)]
            [] OTHER            -> Raise(r, "MultipleObjectsReturned")]
    /\ UNCHANGED <<items, item_labels, refs, logs, seq, calls, hist, attachments>>

\* the row get_or_create inserts on a miss: the natural key and the defaults
CreatedRow(u, o) == [user |-> u, key |-> o.key, attr |-> o.attr]

\* get_or_create, second half: Model.objects.create(user=..., <key>=..., **defaults)
\* (no unique constraint exists, so the insert never conflicts)
RefCreate(p) ==
    LET r == req[p]
        o == Head1(p)
        id == seq[o.kind] + 1
    IN
    /\ AtOp(p, "create")
    /\ seq' = [seq EXCEPT ![o.kind] = id]
    /\ refs' = [refs EXCEPT ![o.kind] = Put(@, id, CreatedRow(r.user, o))]
    /\ req' = [req EXCEPT ![p] = Cont(Bind(r, o.slot, id), Tail(r.plan))]
    /\ UNCHANGED <<items, item_labels, logs, calls, hist, attachments>>

\* a value of a JSON record: null, a number or a string
JNull == [t |-> "null", n |-> 0, s |-> ""]
JNum(n) == [t |-> "num", n |-> n, s |-> ""]
JStr(s) == [t |-> "str", n |-> 0, s |-> s]

\* the texts Decimal() and float() accept, with their values in hundredths
DecimalTexts == {"10.50", "0.00", "0"}

PriceOf(s) == IF s = "10.50" THEN 1050 ELSE 0

\* the texts datetime.fromisoformat accepts and the date each one gives
IsoTexts == {"2024-03-05", "2024-03-05T10:00:00"}

\* the dates of the model are all the fifth of March 2024
FromIso(s) == "2024-03-05"

\* the date loop of import_json: a truthy value goes through fromisoformat,
\* a ValueError gives None; null and the empty text are left as they are
JsonDate(v) ==
    IF v.t = "str" /\ v.s \in IsoTexts THEN {FromIso(v.s)} ELSE {}

\* fromisoformat of a truthy value that is no string: TypeError, which the
\* except ValueError of the date loop does not catch
DateTypeError(rec) == \E v \in rec.purchase_date : v.t = "num" /\ v.n # 0

\* DecimalField.to_python at item.save(): a number or a decimal text is
\* stored, null is NULL
JsonDecimal(v) ==
    CASE v.t = "num" -> {v.n}
      [] v.t = "str" /\ v.s \in DecimalTexts -> {PriceOf(v.s)}
      [] OTHER -> {}

\* DecimalField.to_python at item.save(): ValidationError for any other text
DecimalError(rec) == \E v \in rec.purchase_price : v.t = "str" /\ v.s \notin DecimalTexts

\* a date value the date loop leaves as it is and DateField.to_python refuses
\* at item.save(): the empty text, the number 0
DateError(rec) ==
    \E v \in rec.purchase_date : (v.t = "str" /\ v.s = "") \/ (v.t = "num" /\ v.n = 0)

\* a text column takes the JSON string, NULL for null
JsonText(v) == IF v.t = "str" THEN {v.s} ELSE {}

\* a lookup of the Item that never finds it
ItemLookupNone(its, id, u) == {}

\* Item.objects.get(id=item_id, user=request.user): the id of the row found
\* ({} for DoesNotExist)
ItemLookup(its, id, u) == {i \in id \cap DOMAIN its : its[i].user = u}

\* import_json: the date loop, then "find or create the item", the lookup by
\* id and the counters
ItemGet(p) ==
    LET r == req[p]
        rec == r.doc[r.idx]
        hit == ItemLookup(items, rec.id, r.user)
    IN
    /\ AtOp(p, "lookup")
    /\ IF DateTypeError(rec)
       THEN /\ req' = [req EXCEPT ![p] = Raise(r, "TypeError")]
            /\ seq' = seq
       ELSE IF rec.id = {BadUuid}
       THEN \* UUIDField.to_python: ValidationError, which is no DoesNotExist
            /\ req' = [req EXCEPT ![p] = Raise(r, "ValidationError")]
            /\ seq' = seq
       ELSE IF hit # {}
       THEN LET i == CHOOSE x \in hit : TRUE IN
            /\ req' = [req EXCEPT ![p] =
                  [r EXCEPT !.item = [adding |-> FALSE, id |-> i, row |-> items[i]],
                            !.before = [row |-> items[i], labels |-> LabelsOf(item_labels, i),
                                        attachments |-> AttachmentsOf(attachments, i)],
                            !.items_updated = @ + 1, !.plan = Tail(@)]]
            /\ seq' = seq
       ELSE /\ req' = [req EXCEPT ![p] =
                  [r EXCEPT !.item = [adding |-> TRUE, id |-> seq.Item + 1,
                                      row |-> NewItem(r.user)],
                            !.items_created = @ + 1, !.plan = Tail(@)]]
            /\ seq' = [seq EXCEPT !.Item = @ + 1]
    /\ UNCHANGED <<items, item_labels, refs, logs, calls, hist, attachments>>

\* a variant of the assignments that keeps the previous location of the item
\* when the record names none
JsonAssignKeep(r, rec) ==
    [r.item.row EXCEPT
        !.user = IF rec.user_id = {} THEN @ ELSE CHOOSE u \in rec.user_id : TRUE,
        !.name = IF rec.name = {} THEN @ ELSE CHOOSE n \in rec.name : TRUE,
        !.quantity = IF rec.quantity = {} THEN @ ELSE CHOOSE q \in rec.quantity : TRUE,
        !.important = IF rec.important = {} THEN @ ELSE CHOOSE b \in rec.important : TRUE,
        !.purchase_price = IF rec.purchase_price = {} THEN @
                           ELSE JsonDecimal(CHOOSE v \in rec.purchase_price : TRUE),
        !.purchase_date = IF rec.purchase_date = {} THEN @
                          ELSE JsonDate(CHOOSE v \in rec.purchase_date : TRUE),
        !.notes = IF rec.notes = {} THEN @ ELSE JsonText(CHOOSE v \in rec.notes : TRUE),
        !.location = IF r.location = {} THEN @ ELSE r.location,
        !.purchase_currency = r.purchase_currency,
        !.sold_currency = r.sold_currency,
        !.insured_currency = r.insured_currency]

\* a variant of the assignments for a handler that does not pop created_at
JsonAssignNoPop(r, rec) ==
    [r.item.row EXCEPT
        !.user = IF rec.user_id = {} THEN @ ELSE CHOOSE u \in rec.user_id : TRUE,
        !.created_at = IF rec.created_at = {} THEN @ ELSE (CHOOSE v \in rec.created_at : TRUE).n,
        !.name = IF rec.name = {} THEN @ ELSE CHOOSE n \in rec.name : TRUE,
        !.quantity = IF rec.quantity = {} THEN @ ELSE CHOOSE q \in rec.quantity : TRUE,
        !.important = IF rec.important = {} THEN @ ELSE CHOOSE b \in rec.important : TRUE,
        !.purchase_price = IF rec.purchase_price = {} THEN @
                           ELSE JsonDecimal(CHOOSE v \in rec.purchase_price : TRUE),
        !.purchase_date = IF rec.purchase_date = {} THEN @
                          ELSE JsonDate(CHOOSE v \in rec.purchase_date : TRUE),
        !.notes = IF rec.notes = {} THEN @ ELSE JsonText(CHOOSE v \in rec.notes : TRUE),
        !.location = r.location,
        !.purchase_currency = r.purchase_currency,
        !.sold_currency = r.sold_currency,
        !.insured_currency = r.insured_currency]

\* for key, value in item_data.items(): setattr(item, key, value), then the
\* four references resolved for this record; the keys id, attachments,
\* maintenance_records, created_at and updated_at have been popped
JsonAssign(r, rec) ==
    [r.item.row EXCEPT
        !.user = IF rec.user_id = {} THEN @ ELSE CHOOSE u \in rec.user_id : TRUE,
        !.name = IF rec.name = {} THEN @ ELSE CHOOSE n \in rec.name : TRUE,
        !.quantity = IF rec.quantity = {} THEN @ ELSE CHOOSE q \in rec.quantity : TRUE,
        !.important = IF rec.important = {} THEN @ ELSE CHOOSE b \in rec.important : TRUE,
        !.purchase_price = IF rec.purchase_price = {} THEN @
                           ELSE JsonDecimal(CHOOSE v \in rec.purchase_price : TRUE),
        !.purchase_date = IF rec.purchase_date = {} THEN @
                          ELSE JsonDate(CHOOSE v \in rec.purchase_date : TRUE),
        !.notes = IF rec.notes = {} THEN @ ELSE JsonText(CHOOSE v \in rec.notes : TRUE),
        !.location = r.location,
        !.purchase_currency = r.purchase_currency,
        !.sold_currency = r.sold_currency,
        !.insured_currency = r.insured_currency]

\* what the database refuses of an Item row: the CHECK (quantity >= 0) of
\* PositiveIntegerField and the foreign keys
SaveError(row) ==
    \/ row.quantity < 0
    \/ ~(row.location \subseteq DOMAIN refs.Location)
    \/ ~((row.purchase_currency \cup row.sold_currency \cup row.insured_currency)
            \subseteq DOMAIN refs.Currency)

\* the statements after item.save(): labels.clear() (import_json only) and
\* one labels.add per resolved label
AfterSave(r) ==
    (IF r.fmt = "json" THEN <<Op("clear", "Item", "", "", "", 0)>> ELSE << >>)
    \o [i \in 1..Len(r.labels) |-> Op("add", "Label", "", "", "", r.labels[i])]

\* ------------------------------------------------------------- import_csv
\* str.strip() on the cell texts of the model
Strip(s) ==
    CASE s = " " -> ""
      [] s = " Garage " -> "Garage"
      [] s = " 3 " -> "3"
      [] s = " spare " -> "spare"
      [] OTHER -> s

\* str.lower() on the cell texts of the model
Lower(s) ==
    CASE s = "Yes" -> "yes"
      [] s = "YES" -> "yes"
      [] s = "True" -> "true"
      [] s = "TRUE" -> "true"
      [] s = "No" -> "no"
      [] s = "False" -> "false"
      [] OTHER -> s

\* a variant of the coercion that compares the cell as it is written
CsvBoolExact(cell) == cell \in {"yes", "true", "1"}

\* row.get(column, '').lower() in ('yes', 'true', '1')
CsvBool(cell) == Lower(cell) \in {"yes", "true", "1"}

\* the Purchase Price cell: float() of a non-blank cell, a ValueError is passed
CsvPrice(cell) ==
    IF Strip(cell) \in DecimalTexts THEN {PriceOf(Strip(cell))} ELSE {}

\* the texts strptime reads with '%Y-%m-%d' and with '%m/%d/%Y'
YmdTexts == {"2024-03-05"}
MdyTexts == {"03/05/2024"}

\* the Purchase Date cell: the two formats in turn, a ValueError is passed
CsvDate(cell) ==
    IF Strip(cell) \in YmdTexts \cup MdyTexts THEN {"2024-03-05"} ELSE {}

\* int(text): the texts Python's int() accepts, with their values
IntTexts == {"0", "1", "2", "3", " 3 ", "-1"}

IntOf(s) ==
    CASE Strip(s) = "1" -> 1
      [] Strip(s) = "2" -> 2
      [] Strip(s) = "3" -> 3
      [] Strip(s) = "-1" -> -1
      [] OTHER -> 0

\* get_or_create of one currency column of a CSV row
CsvCurrencyOps(row, col, slot) ==
    IF Strip(row[col]) = "" THEN << >>
    ELSE <<Op("get", "Currency", Strip(row[col]), "", slot, 0)>>

\* [name.strip() for name in row.get('Labels', '').split(',') if name.strip()]
CsvLabelNames(row) ==
    LET kept == SelectSeq(row.Labels, LAMBDA x : Strip(x) # "")
    IN  [i \in 1..Len(kept) |-> Strip(kept[i])]

\* a variant of the statements of a row that resolves the Location cell
\* whatever it holds
CsvPlanAlways(row) ==
    <<Op("get", "Location", Strip(row.Location), "", "location", 0)>>
    \o [i \in 1..Len(CsvLabelNames(row)) |->
          Op("get", "Label", CsvLabelNames(row)[i], DefaultColor, "labels", 0)]
    \o <<Op("fields", "Item", "", "", "", 0)>>
    \o CsvCurrencyOps(row, "Purchase_Currency", "purchase_currency")
    \o CsvCurrencyOps(row, "Sold_Currency", "sold_currency")
    \o CsvCurrencyOps(row, "Insured_Currency", "insured_currency")
    \o <<Op("save", "Item", "", "", "", 0)>>

\* the database statements import_csv runs for one row, in code order
CsvPlan(row) ==
    (IF Strip(row.Location) = "" THEN << >>
     ELSE <<Op("get", "Location", Strip(row.Location), "", "location", 0)>>)
    \o [i \in 1..Len(CsvLabelNames(row)) |->
          Op("get", "Label", CsvLabelNames(row)[i], DefaultColor, "labels", 0)]
    \o <<Op("fields", "Item", "", "", "", 0)>>
    \o CsvCurrencyOps(row, "Purchase_Currency", "purchase_currency")
    \o CsvCurrencyOps(row, "Sold_Currency", "sold_currency")
    \o CsvCurrencyOps(row, "Insured_Currency", "insured_currency")
    \o <<Op("save", "Item", "", "", "", 0)>>

\* import_csv up to the loop: the file check, the log, the decoding
ImportCsvBegin(p, u, payload, doc) ==
    /\ req[p].pc = "idle"
    /\ Room(doc)
    /\ calls' = calls + 1
    /\ LET r == [IdleReq EXCEPT !.user = u, !.fmt = "csv", !.call = calls + 1,
                                !.payload = payload,
                                !.doc = doc, !.idx = 1, !.log = Len(logs) + 1,
                                !.owned = OwnedBy(items, u)]
           inprogress == NewLog(r, "CSV Import", "In Progress", ErrorText(<< >>), FALSE)
       IN CASE payload = "nofile" ->
                 \* 'file' not in request.FILES: return 400
                 /\ logs' = logs
                 /\ hist' = Append(hist, Returned(r, 400, items))
                 /\ req' = req
            [] payload = "undecodable" ->
                 \* the log is created, then decode('utf-8') raises: the outer
                 \* except creates a second log and returns
                 /\ logs' = logs \o <<inprogress,
                                NewLog(r, "CSV Import", "Failed",
                                  ErrorText(<<[row |-> 0, exc |-> "UnicodeDecodeError"]>>), TRUE)>>
                 /\ hist' = Append(hist, Returned(r, 400, items))
                 /\ req' = req
            [] OTHER ->
                 /\ logs' = Append(logs, inprogress)
                 /\ hist' = hist
                 /\ req' = [req EXCEPT ![p] = [r EXCEPT !.pc = "loop"]]
    /\ UNCHANGED <<items, item_labels, refs, seq, attachments>>

\* for row in reader: the next row, or the end of the loop
ImportCsvLoop(p) ==
    LET r == req[p] IN
    /\ r.pc = "loop"
    /\ r.fmt = "csv"
    /\ req' = [req EXCEPT ![p] =
          IF r.idx > Len(r.doc) THEN [r EXCEPT !.pc = "finish"]
          ELSE IF r.doc[r.idx].short
               THEN \* row.get('Location', '') is None for a row that ends
                    \* before the column: None.strip()
                    Raise(StartRecord(r, << >>), "AttributeError")
               ELSE StartRecord(r, CsvPlan(r.doc[r.idx]))]
    /\ UNCHANGED <<items, item_labels, refs, logs, seq, calls, hist, attachments>>

\* a variant that takes the oldest Item of the caller, when there is one,
\* instead of a new Item
CsvFieldsUpsert(p) ==
    LET r == req[p]
        row == r.doc[r.idx]
    IN
    /\ AtOp(p, "fields")
    /\ IF Strip(row.Quantity) # "" /\ row.Quantity \notin IntTexts
       THEN \* int('abc'): ValueError
            /\ req' = [req EXCEPT ![p] = Raise(r, "ValueError")]
            /\ seq' = seq
       ELSE /\ req' = [req EXCEPT ![p] =
                  [r EXCEPT !.item = [adding |-> OwnedBy(items, r.user) = {},
                                      id |-> IF OwnedBy(items, r.user) = {} THEN seq.Item + 1
                                             ELSE CHOOSE i \in OwnedBy(items, r.user) :
                                                    \A j \in OwnedBy(items, r.user) : i <= j,
                                      row |-> [NewItem(r.user) EXCEPT
                                         !.name = Strip(row.Name),
                                         !.quantity = IF Strip(row.Quantity) = ""
                                                      THEN 1 ELSE IntOf(row.Quantity),
                                         !.important = CsvBool(row.Important),
                                         !.purchase_price = CsvPrice(row.Purchase_Price),
                                         !.purchase_date = CsvDate(row.Purchase_Date),
                                         !.notes = {Strip(row.Notes)}]],
                            !.plan = Tail(@)]]
            /\ seq' = [seq EXCEPT !.Item = @ + 1]
    /\ UNCHANGED <<items, item_labels, refs, logs, calls, hist, attachments>>

\* item = Item(user=request.user) and the cells of the scalar columns
CsvFields(p) ==
    LET r == req[p]
        row == r.doc[r.idx]
    IN
    /\ AtOp(p, "fields")
    /\ IF Strip(row.Quantity) # "" /\ row.Quantity \notin IntTexts
       THEN \* int('abc'): ValueError
            /\ req' = [req EXCEPT ![p] = Raise(r, "ValueError")]
            /\ seq' = seq
       ELSE /\ req' = [req EXCEPT ![p] =
                  [r EXCEPT !.item = [adding |-> TRUE, id |-> seq.Item + 1,
                                      row |-> [NewItem(r.user) EXCEPT
                                         !.name = Strip(row.Name),
                                         !.quantity = IF Strip(row.Quantity) = ""
                                                      THEN 1 ELSE IntOf(row.Quantity),
                                         !.important = CsvBool(row.Important),
                                         !.purchase_price = CsvPrice(row.Purchase_Price),
                                         !.purchase_date = CsvDate(row.Purchase_Date),
                                         !.notes = {Strip(row.Notes)}]],
                            !.plan = Tail(@)]]
            /\ seq' = [seq EXCEPT !.Item = @ + 1]
    /\ UNCHANGED <<items, item_labels, refs, logs, calls, hist, attachments>>

\* the currencies and the location resolved for the row
CsvAssign(r) ==
    [r.item.row EXCEPT !.location = r.location,
                       !.purchase_currency = r.purchase_currency,
                       !.sold_currency = r.sold_currency,
                       !.insured_currency = r.insured_currency]

\* ----------------------------------------------- save and label statements
\* the field values of the instance when item.save() is called
Assigned(r) ==
    IF r.fmt = "json" THEN JsonAssign(r, r.doc[r.idx]) ELSE CsvAssign(r)

\* item.save(): INSERT of a new row (auto_now_add sets created_at), UPDATE
\* of all columns of a fetched one
ItemSave(p) ==
    LET r == req[p]
        row == Assigned(r)
    IN
    /\ AtOp(p, "save")
    /\ IF r.fmt = "json" /\ (DecimalError(r.doc[r.idx]) \/ DateError(r.doc[r.idx]))
       THEN /\ req' = [req EXCEPT ![p] = Raise(r, "ValidationError")]
            /\ items' = items
       ELSE IF SaveError(row)
       THEN /\ req' = [req EXCEPT ![p] = Raise(r, "IntegrityError")]
            /\ items' = items
       ELSE LET stored == IF r.item.adding THEN [row EXCEPT !.created_at = r.call]
                          ELSE row
            IN
            /\ items' = Put(items, r.item.id, stored)
            /\ req' = [req EXCEPT ![p] =
                  Cont([r EXCEPT !.item.row = stored, !.saved = TRUE], AfterSave(r))]
    /\ UNCHANGED <<item_labels, refs, logs, seq, calls, hist, attachments>>

\* item.labels.clear()
LabelsClear(p) ==
    LET r == req[p] IN
    /\ AtOp(p, "clear")
    /\ item_labels' = {x \in item_labels : x[1] # r.item.id}
    /\ req' = [req EXCEPT ![p] = Cont(r, Tail(r.plan))]
    /\ UNCHANGED <<items, refs, logs, seq, calls, hist, attachments>>

\* item.labels.add(label): a row of the through table; the foreign key to
\* Label refuses a label that has been deleted meanwhile
LabelsAdd(p) ==
    LET r == req[p]
        o == Head1(p)
    IN
    /\ AtOp(p, "add")
    /\ IF o.id \in DOMAIN refs.Label
       THEN /\ item_labels' = item_labels \cup {<<r.item.id, o.id>>}
            /\ req' = [req EXCEPT ![p] = Cont(r, Tail(r.plan))]
       ELSE /\ item_labels' = item_labels
            /\ req' = [req EXCEPT ![p] = Raise(r, "IntegrityError")]
    /\ UNCHANGED <<items, refs, logs, seq, calls, hist, attachments>>

\* ------------------------------------------------------- plain endpoints
\* DELETE /labels/<id>/ by its owner (ModelViewSet.destroy over get_queryset):
\* the label row goes, and with it its rows of the through table
LabelDestroy(p, u, id) ==
    /\ req[p].pc = "idle"
    /\ id \in DOMAIN refs.Label
    /\ refs.Label[id].user = u
    /\ refs' = [refs EXCEPT !.Label = Drop(@, id)]
    /\ item_labels' = {x \in item_labels : x[2] # id}
    /\ UNCHANGED <<items, logs, seq, req, calls, hist, attachments>>

\* ------------------------------------------------------------------ inputs
JsonBase ==
    [map |-> TRUE, id |-> {}, user_id |-> {}, name |-> {}, quantity |-> {},
     important |-> {}, purchase_price |-> {}, purchase_date |-> {}, notes |-> {},
     created_at |-> {}, attachments |-> {}, maintenance_records |-> {},
     location |-> {}, labels |-> << >>, purchase_currency |-> {},
     sold_currency |-> {}, insured_currency |-> {}]

Usd(symbol) == [code |-> "USD", symbol |-> symbol]
Tag(color) == [name |-> "tag", color |-> color]

\* the JSON records of the sequential specification
JsonRecords ==
    { [JsonBase EXCEPT !.map = FALSE],
      [JsonBase EXCEPT !.quantity = {-1}, !.labels = <<Tag("#ff0000")>>],
      [JsonBase EXCEPT !.id = {1}, !.name = {"radio"}],
      [JsonBase EXCEPT !.id = {2}, !.name = {"radio"}],
      [JsonBase EXCEPT !.id = {UnknownUuid}, !.labels = <<Tag(DefaultColor)>>,
                       !.purchase_currency = {Usd("US$")}, !.insured_currency = {Usd("$")}],
      [JsonBase EXCEPT !.id = {BadUuid}],
      [JsonBase EXCEPT !.user_id = {"u2"}, !.location = {"Garage"}],
      [JsonBase EXCEPT !.id = {1}, !.user_id = {"u2"}],
      [JsonBase EXCEPT !.location = {"Garage"}, !.labels = <<Tag("#ff0000")>>,
                       !.purchase_currency = {Usd("$")}, !.sold_currency = {Usd("$")}] }

\* a row of the DictReader; short: the line has fewer cells than the header
\* and ends before the Location column, so the later cells are None
CsvBase ==
    [short |-> FALSE, Name |-> "radio", Quantity |-> "", Important |-> "",
     Purchase_Price |-> "", Purchase_Date |-> "", Notes |-> "",
     Location |-> "", Labels |-> << >>,
     Purchase_Currency |-> "", Sold_Currency |-> "", Insured_Currency |-> ""]

\* the CSV rows of the sequential specification
CsvRows ==
    { [CsvBase EXCEPT !.Quantity = "abc", !.Location = " Garage "],
      [CsvBase EXCEPT !.Quantity = "-1", !.Labels = <<"tag", " ">>],
      [CsvBase EXCEPT !.Quantity = " 3 ", !.Labels = <<"tag">>, !.Purchase_Currency = "USD"],
      [CsvBase EXCEPT !.Location = "Garage", !.Sold_Currency = "USD", !.Insured_Currency = "USD"] }

\* the documents of 1..MaxRecords records over a set of records
Docs(S) == UNION {[1..n -> S] : n \in 1..MaxRecords}

\* ------------------------------------------------------------ specification
\* the statements of a record in progress
RecordStep(p) ==
    \/ RefGet(p)
    \/ RefCreate(p)
    \/ ItemGet(p)
    \/ CsvFields(p)
    \/ ItemSave(p)
    \/ LabelsClear(p)
    \/ LabelsAdd(p)

\* one worker: requests are served one after the other
Next ==
    \/ \E u \in Users : \E payload \in {"unparseable", "empty", "scalar"} :
          ImportJsonBegin("p1", u, payload, << >>)
    \/ \E u \in Users : \E doc \in Docs(JsonRecords) : ImportJsonBegin("p1", u, "list", doc)
    \/ \E u \in Users : \E payload \in {"nofile", "undecodable"} :
          ImportCsvBegin("p1", u, payload, << >>)
    \/ \E u \in Users : \E doc \in {<< >>} \cup Docs(CsvRows) : ImportCsvBegin("p1", u, "rows", doc)
    \/ ImportJsonLoop("p1")
    \/ ImportCsvLoop("p1")
    \/ RecordStep("p1")
    \/ ImportFinish("p1")
    \/ \E u \in Users : \E id \in DOMAIN refs.Label : LabelDestroy("p1", u, id)

Spec == Init /\ [][Next]_vars

\* ------------------------------------------------- concurrent requests
\* Two request workers of the server serve user u1 at the same time.  Django
\* runs in autocommit mode and the handlers open no transaction, so every
\* database statement of a handler is a step of its own and the statements
\* of the two requests interleave freely.
ConcRecords ==
    { [JsonBase EXCEPT !.location = {"Garage"}, !.labels = <<Tag(DefaultColor)>>],
      [JsonBase EXCEPT !.id = {1}, !.name = {"radio"}, !.labels = <<Tag(DefaultColor)>>] }

\* worker p1 imports any of the records; worker p2 imports the record that
\* creates an Item, or deletes a Label of the user
NextConc ==
    \/ \E rec \in ConcRecords : ImportJsonBegin("p1", "u1", "list", <<rec>>)
    \/ \E rec \in {x \in ConcRecords : x.id = {}} : ImportJsonBegin("p2", "u1", "list", <<rec>>)
    \/ \E p \in Procs : ImportJsonLoop(p)
    \/ \E p \in Procs : RefGet(p)
    \/ \E p \in Procs : RefCreate(p)
    \/ \E p \in Procs : ItemGet(p)
    \/ \E p \in Procs : ItemSave(p)
    \/ \E p \in Procs : LabelsClear(p)
    \/ \E p \in Procs : LabelsAdd(p)
    \/ \E p \in Procs : ImportFinish(p)
    \/ \E id \in 1..MaxImported : LabelDestroy("p2", "u1", id)

SpecConc == Init /\ [][NextConc]_vars

\* ---------------------------------------------------- long documents
\* One worker imports documents of more than ErrorLimit records, all of which
\* fail but at most one (record j, if any).
FailingJson(k) ==
    IF k % 2 = 1 THEN [JsonBase EXCEPT !.map = FALSE] ELSE [JsonBase EXCEPT !.id = {BadUuid}]

LongJsonDocs ==
    {[k \in 1..n |-> IF k = j THEN [JsonBase EXCEPT !.name = {"radio"}] ELSE FailingJson(k)] :
        n \in (ErrorLimit + 1)..MaxImported, j \in 0..MaxImported}

LongCsvDocs ==
    {[k \in 1..n |-> IF k = j THEN CsvBase ELSE [CsvBase EXCEPT !.Quantity = "abc"]] :
        n \in (ErrorLimit + 1)..MaxImported, j \in 0..MaxImported}

NextErrors ==
    \/ \E doc \in LongJsonDocs : ImportJsonBegin("p1", "u1", "list", doc)
    \/ \E doc \in LongCsvDocs : ImportCsvBegin("p1", "u1", "rows", doc)
    \/ ImportJsonLoop("p1")
    \/ ImportCsvLoop("p1")
    \/ ItemGet("p1")
    \/ CsvFields("p1")
    \/ ItemSave("p1")
    \/ LabelsClear("p1")
    \/ ImportFinish("p1")

SpecErrors == Init /\ [][NextErrors]_vars

\* ------------------------------------------------ the fields of a record
\* One worker imports documents of one record that differ in their
\* references and in the values of the optional fields.
Eur(code) == [code |-> code, symbol |-> "E"]

FieldJsonRecords ==
    { [JsonBase EXCEPT !.name = {"radio"}, !.location = {""}],
      [JsonBase EXCEPT !.labels = <<[name |-> "", color |-> DefaultColor]>>,
                       !.purchase_currency = {Eur("")}],
      [JsonBase EXCEPT !.id = {1}, !.location = {"Garage"}, !.labels = <<Tag(DefaultColor)>>,
                       !.purchase_currency = {Usd("$")}, !.sold_currency = {Usd("$")},
                       !.insured_currency = {Usd("$")}],
      [JsonBase EXCEPT !.id = {1}, !.location = {"Attic"},
                       !.labels = <<[name |-> "tool", color |-> DefaultColor]>>,
                       !.sold_currency = {Eur("EUR")}],
      [JsonBase EXCEPT !.id = {1}, !.name = {"radio"}],
      [JsonBase EXCEPT !.important = {TRUE}, !.purchase_price = {JNum(1050)},
                       !.purchase_date = {JStr("2024-03-05T10:00:00")},
                       !.notes = {JStr("spare")}],
      [JsonBase EXCEPT !.purchase_price = {JStr("10.50")}, !.purchase_date = {JStr("03/05/2024")}],
      [JsonBase EXCEPT !.purchase_price = {JStr("abc")}],
      [JsonBase EXCEPT !.purchase_date = {JNum(5)}],
      [JsonBase EXCEPT !.purchase_date = {JStr("2024-03-05")}],
      [JsonBase EXCEPT !.purchase_date = {JStr("soon")}] }

\* the texts of a boolean cell
BoolTexts ==
    {"Yes", "yes", "YES", "True", "true", "TRUE", "1", "No", "no", "False", "0", "maybe", ""}

FieldCsvRows ==
    {[CsvBase EXCEPT !.Important = t] : t \in BoolTexts} \cup
    { [CsvBase EXCEPT !.Location = " ", !.Labels = <<" ">>, !.Purchase_Currency = " "],
      [CsvBase EXCEPT !.short = TRUE],
      [CsvBase EXCEPT !.Important = "maybe", !.Purchase_Price = "abc",
                      !.Purchase_Date = "soon"],
      [CsvBase EXCEPT !.Important = "1", !.Purchase_Date = "2024-03-05"],
      [CsvBase EXCEPT !.Important = "Yes", !.Purchase_Price = "10.50",
                      !.Purchase_Date = "03/05/2024", !.Notes = " spare ",
                      !.Location = "Garage", !.Labels = <<"tag">>] }

NextFields ==
    \/ \E rec \in FieldJsonRecords : ImportJsonBegin("p1", "u1", "list", <<rec>>)
    \/ \E row \in FieldCsvRows : ImportCsvBegin("p1", "u1", "rows", <<row>>)
    \/ ImportJsonLoop("p1")
    \/ ImportCsvLoop("p1")
    \/ RecordStep("p1")
    \/ ImportFinish("p1")

SpecFields == Init /\ [][NextFields]_vars

\* ---------------------------------------------------------------- exports
\* the elements of a finite set of numbers in increasing order
RECURSIVE SeqOf(_)
SeqOf(S) ==
    IF S = {} THEN << >>
    ELSE LET m == CHOOSE x \in S : \A y \in S : x <= y IN <<m>> \o SeqOf(S \ {m})

\* a text of two lines
TwoLines == "l1\nl2"

\* str() of the numbers of the model
IntText(q) ==
    CASE q = 0 -> "0"
      [] q = 1 -> "1"
      [] q = 2 -> "2"
      [] q = 3 -> "3"
      [] OTHER -> "-1"

\* str() of a Decimal column read from the database (two decimal places)
DecimalText(p) == IF p = 1050 THEN "10.50" ELSE "0.00"

\* {"id": ..., "name": ...} / {"id": ..., "code": ..., "symbol": ...} if
\* the item has the reference else None
ExportRef(kind, ids) ==
    {[code |-> refs[kind][id].key, symbol |-> refs[kind][id].attr] : id \in ids \cap DOMAIN refs[kind]}

\* item_data of export_json for the item i: a price goes through
\* "float(price) if price else None", a date through isoformat()
ExportJsonRecord(i) ==
    LET row == items[i]
        labs == SeqOf(LabelsOf(item_labels, i) \cap DOMAIN refs.Label)
    IN  [JsonBase EXCEPT
            !.id = {i},
            !.name = {row.name},
            !.quantity = {row.quantity},
            !.important = {row.important},
            !.purchase_price = {IF row.purchase_price \subseteq {0} THEN JNull
                                ELSE JNum(CHOOSE x \in row.purchase_price : TRUE)},
            !.purchase_date = {IF row.purchase_date = {} THEN JNull
                               ELSE JStr(CHOOSE x \in row.purchase_date : TRUE)},
            !.notes = {IF row.notes = {} THEN JNull ELSE JStr(CHOOSE x \in row.notes : TRUE)},
            !.location = {refs.Location[l].key : l \in row.location \cap DOMAIN refs.Location},
            !.labels = [k \in 1..Len(labs) |->
                          [name |-> refs.Label[labs[k]].key, color |-> refs.Label[labs[k]].attr]],
            !.purchase_currency = ExportRef("Currency", row.purchase_currency),
            !.sold_currency = ExportRef("Currency", row.sold_currency),
            !.insured_currency = ExportRef("Currency", row.insured_currency)]

\* the cells csv.writer writes for the item i; None is written as the empty
\* cell; important is written as str(bool) by export_csv (raw) and as Yes/No
\* by export_items_to_csv
ExportCsvRow(i, raw) ==
    LET row == items[i]
        labs == SeqOf(LabelsOf(item_labels, i) \cap DOMAIN refs.Label)
        code(ids) == IF ids \cap DOMAIN refs.Currency = {} THEN ""
                     ELSE refs.Currency[CHOOSE c \in ids \cap DOMAIN refs.Currency : TRUE].key
    IN  [CsvBase EXCEPT
            !.Name = row.name,
            !.Quantity = IntText(row.quantity),
            !.Important = IF raw THEN (IF row.important THEN "True" ELSE "False")
                          ELSE (IF row.important THEN "Yes" ELSE "No"),
            !.Purchase_Price = IF row.purchase_price = {} THEN ""
                               ELSE DecimalText(CHOOSE x \in row.purchase_price : TRUE),
            !.Purchase_Date = IF row.purchase_date = {} THEN ""
                              ELSE CHOOSE x \in row.purchase_date : TRUE,
            !.Notes = IF row.notes = {} THEN "" ELSE CHOOSE x \in row.notes : TRUE,
            !.Location = IF row.location \cap DOMAIN refs.Location = {} THEN ""
                         ELSE refs.Location[CHOOSE l \in row.location \cap DOMAIN refs.Location : TRUE].key,
            !.Labels = [k \in 1..Len(labs) |-> refs.Label[labs[k]].key],
            !.Purchase_Currency = code(row.purchase_currency),
            !.Sold_Currency = code(row.sold_currency),
            !.Insured_Currency = code(row.insured_currency)]

\* a variant of the export log that is left in progress
ExportLogPending(r, type) == NewLog(r, type, "In Progress", ErrorText(<< >>), FALSE)

\* ImportLog.objects.create(...) of the export handlers
ExportLog(r, type) == NewLog(r, type, "Success", ErrorText(<< >>), TRUE)

\* the request of an export call of user u that returns the document doc
ExportReq(u, fmt, payload, doc) ==
    [IdleReq EXCEPT !.user = u, !.fmt = fmt, !.call = calls + 1, !.payload = payload,
                    !.doc = doc, !.owned = OwnedBy(items, u)]

\* GET /items/export_json/
ExportJson(p, u) ==
    LET owned == SeqOf(OwnedBy(items, u))
        r == ExportReq(u, "json", "export", [k \in 1..Len(owned) |-> ExportJsonRecord(owned[k])])
    IN
    /\ req[p].pc = "idle"
    /\ calls < MaxCalls
    /\ calls' = calls + 1
    /\ logs' = Append(logs, ExportLog(r, "JSON Export"))
    /\ hist' = Append(hist, Returned(r, 200, items))
    /\ UNCHANGED <<items, item_labels, refs, seq, req, attachments>>

\* GET /items/export_csv/
ExportCsv(p, u) ==
    LET owned == SeqOf(OwnedBy(items, u))
        r == ExportReq(u, "csv", "export", [k \in 1..Len(owned) |-> ExportCsvRow(owned[k], TRUE)])
    IN
    /\ req[p].pc = "idle"
    /\ calls < MaxCalls
    /\ calls' = calls + 1
    /\ logs' = Append(logs, ExportLog(r, "CSV Export"))
    /\ hist' = Append(hist, Returned(r, 200, items))
    /\ UNCHANGED <<items, item_labels, refs, seq, req, attachments>>

\* export_items_to_csv(items, user): the function returns the text and
\* touches no table
ExportItemsToCsv(p, u) ==
    LET owned == SeqOf(OwnedBy(items, u))
        r == ExportReq(u, "csv", "function", [k \in 1..Len(owned) |-> ExportCsvRow(owned[k], FALSE)])
    IN
    /\ req[p].pc = "idle"
    /\ calls < MaxCalls
    /\ calls' = calls + 1
    /\ hist' = Append(hist, Returned(r, 200, items))
    /\ UNCHANGED <<items, item_labels, refs, seq, req, logs, attachments>>

\* GET /import-logs/ and GET /import-logs/<id>/ (ReadOnlyModelViewSet over
\* the caller's logs): nothing is written
ImportLogList(p, u) ==
    /\ req[p].pc = "idle"
    /\ \E k \in DOMAIN logs : logs[k].user = u
    /\ UNCHANGED vars

\* csv_file.read().decode('utf-8').splitlines() handed to csv.DictReader: a
\* line break inside a quoted cell ends the line, and the reader joins the
\* two pieces of the cell without it
Unlines(s) == IF s = TwoLines THEN "l1l2" ELSE s

CsvRead(written) ==
    [k \in 1..Len(written) |->
        [written[k] EXCEPT !.Name = Unlines(@), !.Notes = Unlines(@)]]

\* the Items a user can hold: every value of the scalar columns of the model
ValidItems(u) ==
    {[NewItem(u) EXCEPT !.name = "tv", !.quantity = q, !.important = b,
                        !.purchase_price = pr, !.purchase_date = d, !.notes = n] :
        q \in {1, 3}, b \in BOOLEAN, pr \in {{}, {0}, {1050}},
        d \in {{}, {"2024-03-05"}}, n \in {{}, {"spare"}, {TwoLines}}}

\* the store when a round trip starts: user u1 holds any valid Item
InitRound ==
    /\ items \in {<<it, [NewItem("u2") EXCEPT !.name = "tv"]>> : it \in ValidItems("u1")}
    /\ item_labels = {}
    /\ refs = [k \in Kinds |-> << >>]
    /\ logs = << >>
    /\ seq = [Item |-> 2, Location |-> 0, Label |-> 0, Currency |-> 0]
    /\ req = [p \in Procs |-> IdleReq]
    /\ calls = 0
    /\ hist = << >>
    /\ attachments = << >>

\* user u1 exports the store and imports a document an export has returned
NextRound ==
    \/ ExportJson("p1", "u1")
    \/ ExportCsv("p1", "u1")
    \/ ExportItemsToCsv("p1", "u1")
    \/ \E j \in DOMAIN hist :
          /\ hist[j].payload = "export" /\ hist[j].fmt = "json"
          /\ ImportJsonBegin("p1", "u1", "list", hist[j].doc)
    \/ \E j \in DOMAIN hist :
          /\ hist[j].payload \in {"export", "function"} /\ hist[j].fmt = "csv"
          /\ ImportCsvBegin("p1", "u1", "rows", CsvRead(hist[j].doc))
    \/ ImportJsonLoop("p1")
    \/ ImportCsvLoop("p1")
    \/ ItemGet("p1")
    \/ CsvFields("p1")
    \/ ItemSave("p1")
    \/ LabelsClear("p1")
    \/ ImportFinish("p1")
    \/ ImportLogList("p1", "u1")

SpecRound == InitRound /\ [][NextRound]_vars

\* ------------------------------------------- the plain endpoints of the
\* Location, Label and Currency viewsets
\* the name (code) the plain create calls of the model use
PlainKey(kind) ==
    CASE kind = "Location" -> "Garage"
      [] kind = "Label" -> "tag"
      [] OTHER -> "USD"

\* the attribute of a row of the kind (Label.color, Currency.symbol)
PlainAttr(kind) ==
    CASE kind = "Location" -> ""
      [] kind = "Label" -> DefaultColor
      [] OTHER -> "$"

\* the rows of a table that the plain create endpoint has inserted so far
\* cannot be told from the imported ones; the bound counts all rows
PlainRoom(kind) == seq[kind] < MaxPlain

\* POST /locations/, /labels/, /currencies/: perform_create saves the row
\* for the caller; the serializers have no uniqueness validator and the
\* models no unique constraint
PerformCreate(p, kind, u, key) ==
    /\ req[p].pc = "idle"
    /\ PlainRoom(kind)
    /\ seq' = [seq EXCEPT ![kind] = @ + 1]
    /\ refs' = [refs EXCEPT ![kind] =
                   Put(@, seq[kind] + 1, [user |-> u, key |-> key, attr |-> PlainAttr(kind)])]
    /\ UNCHANGED <<items, item_labels, logs, req, calls, hist, attachments>>

\* on_delete=SET_NULL of a foreign key of Item: the column slot of every row
\* that holds id becomes NULL
SetNull(its, slots, id) ==
    [i \in DOMAIN its |->
        [f \in DOMAIN its[i] |-> IF f \in slots THEN its[i][f] \ {id} ELSE its[i][f]]]

\* on_delete=CASCADE instead: the rows that hold id are deleted
Cascade(its, slots, id) ==
    LET keep == {i \in DOMAIN its : \A f \in slots : id \notin its[i][f]}
    IN  [i \in keep |-> its[i]]

\* the collector's rule for the foreign keys of Item to Location and Currency
OnDelete(its, slots, id) == SetNull(its, slots, id)

\* DELETE /locations/<id>/ by its owner
LocationDestroy(p, u, id) ==
    /\ req[p].pc = "idle"
    /\ id \in DOMAIN refs.Location
    /\ refs.Location[id].user = u
    /\ refs' = [refs EXCEPT !.Location = Drop(@, id)]
    /\ items' = OnDelete(items, {"location"}, id)
    /\ UNCHANGED <<item_labels, logs, seq, req, calls, hist, attachments>>

\* DELETE /currencies/<id>/ by its owner
CurrencyDestroy(p, u, id) ==
    /\ req[p].pc = "idle"
    /\ id \in DOMAIN refs.Currency
    /\ refs.Currency[id].user = u
    /\ refs' = [refs EXCEPT !.Currency = Drop(@, id)]
    /\ items' = OnDelete(items, {"purchase_currency", "sold_currency", "insured_currency"}, id)
    /\ UNCHANGED <<item_labels, logs, seq, req, calls, hist, attachments>>

\* the records of the imports that run beside the plain endpoints
PlainJsonRecords ==
    { [JsonBase EXCEPT !.name = {"radio"}, !.location = {"Garage"},
                       !.labels = <<Tag(DefaultColor)>>, !.purchase_currency = {Usd("$")}] }

PlainCsvRows ==
    { [CsvBase EXCEPT !.Location = "Garage", !.Labels = <<"tag">>, !.Sold_Currency = "USD"] }

\* user u1 imports while both users create and delete Locations, Labels and
\* Currencies through the plain endpoints between the import calls
NextPlain ==
    \/ \E kind \in Kinds : \E u \in Users : PerformCreate("p1", kind, u, PlainKey(kind))
    \/ \E u \in Users : \E id \in 1..(MaxPlain + MaxCalls) : LocationDestroy("p1", u, id)
    \/ \E u \in Users : \E id \in 1..(MaxPlain + MaxCalls) : CurrencyDestroy("p1", u, id)
    \/ \E rec \in PlainJsonRecords : ImportJsonBegin("p1", "u1", "list", <<rec>>)
    \/ \E row \in PlainCsvRows : ImportCsvBegin("p1", "u1", "rows", <<row>>)
    \/ ImportJsonLoop("p1")
    \/ ImportCsvLoop("p1")
    \/ RecordStep("p1")
    \/ ImportFinish("p1")

SpecPlain == Init /\ [][NextPlain]_vars

\* ------------------------------------------------------ AttachmentViewSet
\* The statements of an upload and of set_as_primary are steps of their own
\* (autocommit, no transaction); a worker that serves one of them has
\* pc = "att", its plan holds the statements left and idx the id of the
\* Attachment it has inserted last.

\* the statements of create for one file: the update that clears the other
\* primaries (only for is_primary=true), the insert, and for an image the
\* second attachment.save() after the thumbnail has been written
FilePlan(i, primary, image) ==
    (IF primary THEN <<Op("att_clear", "Attachment", "", "", "", i)>> ELSE << >>)
    \o <<Op("att_insert", "Attachment", "", "", IF primary THEN "primary" ELSE "plain", i)>>
    \o (IF image THEN <<Op("att_resave", "Attachment", "", "", IF primary THEN "primary" ELSE "plain", i)>>
         ELSE << >>)

RECURSIVE Repeat(_, _)
Repeat(plan, n) == IF n = 0 THEN << >> ELSE plan \o Repeat(plan, n - 1)

\* the inserts the workers have still to run
PendingInserts ==
    LET n(p) == Len(SelectSeq(req[p].plan, LAMBDA o : o.op = "att_insert"))
    IN  n("p1") + n("p2")

AttOp(p, op) ==
    /\ req[p].pc = "att"
    /\ req[p].plan # << >>
    /\ Head1(p).op = op

\* the next statement of the call, or its response
AttCont(r) == IF Tail(r.plan) = << >> THEN IdleReq ELSE [r EXCEPT !.plan = Tail(@)]

\* POST /attachments/ with n files for the Item i of the caller
AttachmentCreate(p, u, i, n, primary, image) ==
    /\ req[p].pc = "idle"
    /\ i \in OwnedBy(items, u)
    /\ Len(attachments) + PendingInserts + n <= MaxAttachments
    /\ req' = [req EXCEPT ![p] =
                  [IdleReq EXCEPT !.pc = "att", !.user = u,
                                  !.plan = Repeat(FilePlan(i, primary, image), n)]]
    /\ UNCHANGED <<items, item_labels, refs, logs, seq, calls, hist, attachments>>

\* Attachment.objects.filter(item=item, is_primary=True).update(is_primary=False)
AttClear(p) ==
    /\ AttOp(p, "att_clear")
    /\ attachments' = [a \in DOMAIN attachments |->
                          IF attachments[a].item = Head1(p).id
                          THEN [attachments[a] EXCEPT !.is_primary = FALSE]
                          ELSE attachments[a]]
    /\ req' = [req EXCEPT ![p] = AttCont(@)]
    /\ UNCHANGED <<items, item_labels, refs, logs, seq, calls, hist>>

\* attachment = Attachment(item=item, ..., is_primary=is_primary); attachment.save()
AttInsert(p) ==
    /\ AttOp(p, "att_insert")
    /\ attachments' = Append(attachments,
                             [item |-> Head1(p).id, is_primary |-> Head1(p).slot = "primary"])
    /\ req' = [req EXCEPT ![p] =
                  IF Tail(@.plan) = << >> THEN IdleReq
                  ELSE [@ EXCEPT !.plan = Tail(@), !.idx = Len(attachments) + 1]]
    /\ UNCHANGED <<items, item_labels, refs, logs, seq, calls, hist>>

\* the second attachment.save() of an image: all columns of the instance in
\* memory are written again
AttResave(p) ==
    /\ AttOp(p, "att_resave")
    /\ attachments' = [attachments EXCEPT ![req[p].idx].is_primary = (Head1(p).slot = "primary")]
    /\ req' = [req EXCEPT ![p] = AttCont(@)]
    /\ UNCHANGED <<items, item_labels, refs, logs, seq, calls, hist>>

\* PATCH /attachments/<a>/set_as_primary/: get_object of an Attachment of
\* the caller's Items
SetAsPrimary(p, u, a) ==
    /\ req[p].pc = "idle"
    /\ a \in DOMAIN attachments
    /\ attachments[a].item \in OwnedBy(items, u)
    /\ req' = [req EXCEPT ![p] =
                  [IdleReq EXCEPT !.pc = "att", !.user = u,
                                  !.plan = <<Op("att_clear", "Attachment", "", "", "", attachments[a].item),
                                             Op("att_save", "Attachment", "", "", "", a)>>]]
    /\ UNCHANGED <<items, item_labels, refs, logs, seq, calls, hist, attachments>>

\* attachment.is_primary = True; attachment.save()
AttSave(p) ==
    /\ AttOp(p, "att_save")
    /\ attachments' = [attachments EXCEPT ![Head1(p).id].is_primary = TRUE]
    /\ req' = [req EXCEPT ![p] = AttCont(@)]
    /\ UNCHANGED <<items, item_labels, refs, logs, seq, calls, hist>>

\* the record of the import that runs beside the attachment calls: an update
\* of Item 1 that carries the keys an export writes for it
AttachRecords ==
    { [JsonBase EXCEPT !.id = {1}, !.name = {"radio"}, !.created_at = {JNum(7)},
                       !.attachments = {JStr("[]")}, !.maintenance_records = {JStr("[]")}] }

\* two workers serve user u1: uploads and set_as_primary calls on Item 1 on
\* both, the import on worker p1
NextAttach ==
    \/ \E p \in Procs : \E n \in 1..MaxFiles : \E primary \in BOOLEAN : \E image \in BOOLEAN :
          AttachmentCreate(p, "u1", 1, n, primary, image)
    \/ \E p \in Procs : \E a \in 1..MaxAttachments : SetAsPrimary(p, "u1", a)
    \/ \E p \in Procs : AttClear(p)
    \/ \E p \in Procs : AttInsert(p)
    \/ \E p \in Procs : AttResave(p)
    \/ \E p \in Procs : AttSave(p)
    \/ \E rec \in AttachRecords : ImportJsonBegin("p1", "u1", "list", <<rec>>)
    \/ ImportJsonLoop("p1")
    \/ ItemGet("p1")
    \/ ItemSave("p1")
    \/ LabelsClear("p1")
    \/ ImportFinish("p1")

SpecAttach == Init /\ [][NextAttach]_vars

\* ------------------------------------------- ItemSerializer and listings
\* the Items a behaviour of the item endpoints may hold
MaxListed == 3

\* the value of the location field of a request to the item endpoints: null,
\* or the primary key of a row of Location.objects.all() (the queryset of the
\* PrimaryKeyRelatedField that ModelSerializer builds has no user filter)
LocationChoices == {{}} \cup {{l} : l \in DOMAIN refs.Location}

\* the value of the labels field: primary keys of rows of Label.objects.all()
LabelChoices == SUBSET DOMAIN refs.Label

\* POST /items/: perform_create saves with user=request.user and
\* ItemSerializer.create inserts the row, then adds the labels
ItemCreate(p, u, loc, labs) ==
    /\ req[p].pc = "idle"
    /\ seq.Item < MaxListed
    /\ loc \in LocationChoices
    /\ labs \in LabelChoices
    /\ seq' = [seq EXCEPT !.Item = @ + 1]
    /\ items' = Put(items, seq.Item + 1,
                    [NewItem(u) EXCEPT !.name = "tv", !.created_at = calls, !.location = loc])
    /\ item_labels' = item_labels \cup {<<seq.Item + 1, l>> : l \in labs}
    /\ UNCHANGED <<refs, logs, req, calls, hist, attachments>>

\* PUT /items/<id>/: get_object over the caller's Items, then
\* ItemSerializer.update sets the fields, saves, and replaces the labels
ItemUpdate(p, u, i, loc, labs) ==
    /\ req[p].pc = "idle"
    /\ i \in OwnedBy(items, u)
    /\ loc \in LocationChoices
    /\ labs \in LabelChoices
    /\ items' = [items EXCEPT ![i].location = loc]
    /\ item_labels' = {x \in item_labels : x[1] # i} \cup {<<i, l>> : l \in labs}
    /\ UNCHANGED <<refs, logs, seq, req, calls, hist, attachments>>

\* ItemSerializer(items, many=True).data: the rows of a listing, each with
\* its id and its owner
Listing(ids) ==
    LET s == SeqOf(ids) IN [k \in 1..Len(s) |-> [id |-> s[k], user |-> items[s[k]].user]]

\* GET /locations/<id>/items/: get_object over the caller's Locations, then
\* Item.objects.filter(location=location)
LocationItems(p, u, l) ==
    LET found == {i \in DOMAIN items : l \in items[i].location}
        r == ExportReq(u, "json", "location_items", Listing(found))
    IN
    /\ req[p].pc = "idle"
    /\ calls < MaxCalls
    /\ l \in DOMAIN refs.Location
    /\ refs.Location[l].user = u
    /\ calls' = calls + 1
    /\ hist' = Append(hist, Returned(r, 200, items))
    /\ UNCHANGED <<items, item_labels, refs, logs, seq, req, attachments>>

\* GET /labels/<id>/items/: get_object over the caller's Labels, then
\* Item.objects.filter(labels=label)
LabelItems(p, u, l) ==
    LET found == {i \in DOMAIN items : l \in LabelsOf(item_labels, i)}
        r == ExportReq(u, "json", "label_items", Listing(found))
    IN
    /\ req[p].pc = "idle"
    /\ calls < MaxCalls
    /\ l \in DOMAIN refs.Label
    /\ refs.Label[l].user = u
    /\ calls' = calls + 1
    /\ hist' = Append(hist, Returned(r, 200, items))
    /\ UNCHANGED <<items, item_labels, refs, logs, seq, req, attachments>>

\* the record of the imports that run beside the item endpoints
ListingRecords ==
    { [JsonBase EXCEPT !.name = {"radio"}, !.location = {"Garage"},
                       !.labels = <<Tag(DefaultColor)>>] }

\* user u1 creates Locations and Labels, user u2 creates Items and imports,
\* both users update Items and list; a request to the item endpoints names
\* the first Location and the first Label or none; one request at a time
NextListing ==
    \/ \E kind \in {"Location", "Label"} : PerformCreate("p1", kind, "u1", PlainKey(kind))
    \/ \E loc \in SUBSET {1} : \E labs \in SUBSET {1} : ItemCreate("p1", "u2", loc, labs)
    \/ \E u \in Users : \E i \in 1..MaxListed :
          \E loc \in SUBSET {1} : \E labs \in SUBSET {1} : ItemUpdate("p1", u, i, loc, labs)
    \/ \E u \in Users : \E l \in 1..MaxPlain : LocationItems("p1", u, l)
    \/ \E u \in Users : \E l \in 1..MaxPlain : LabelItems("p1", u, l)
    \/ \E rec \in ListingRecords : ImportJsonBegin("p1", "u2", "list", <<rec>>)
    \/ ImportJsonLoop("p1")
    \/ RefGet("p1")
    \/ RefCreate("p1")
    \/ ItemGet("p1")
    \/ ItemSave("p1")
    \/ LabelsClear("p1")
    \/ LabelsAdd("p1")
    \/ ImportFinish("p1")

SpecListing == Init /\ [][NextListing]_vars

\* ================================================================= claims
\* the import calls that ran their loop to the end
Looped(h) == h.http \in {201, 207}

\* the number of records of a call that raised
NFailed(out) == Cardinality({k \in DOMAIN out : out[k].raised})

C3_OneTerminalLog ==
    \A i \in DOMAIN hist :
        LET L == {j \in DOMAIN logs : logs[j].call = hist[i].call} IN
        /\ Cardinality(L) = 1
        /\ \A j \in L : /\ logs[j].status \in {"Success", "Partial Success", "Failed"}
                        /\ logs[j].completed_at

\* the record worker p has just failed left the store as it found it: the
\* Item it built is not in the store or, if it was fetched, has the row and
\* the labels it had when fetched (less the labels deleted since)
NoTrace(p) ==
    LET o == req[p].outcome[Len(req[p].outcome)]
        i == o.item.id
    IN  IF o.item.adding \/ i = NoItem.id
        THEN /\ i \notin DOMAIN items
             /\ LabelsOf(item_labels, i) = {}
        ELSE /\ i \in DOMAIN items
             /\ items[i] = o.before.row
             /\ LabelsOf(item_labels, i) = o.before.labels \cap DOMAIN refs.Label

\* C2: a record whose processing fails at any step, also while its labels
\* are cleared or added after the Item row was saved, leaves no trace in the
\* store: no Item created or modified, no label association changed.
C2_FailedRecordLeavesNoTrace ==
    \A p \in Procs :
        (/\ req[p].pc = "loop"
         /\ req[p].outcome # << >>
         /\ req[p].outcome[Len(req[p].outcome)].raised) => NoTrace(p)

\* calls i and i+1 import the same JSON document for the same user, one after
\* the other, and every record of the document carries an id
SameTwice(i) ==
    /\ i + 1 \in DOMAIN hist
    /\ hist[i].fmt = "json" /\ hist[i + 1].fmt = "json"
    /\ Looped(hist[i]) /\ Looped(hist[i + 1])
    /\ hist[i].user = hist[i + 1].user
    /\ hist[i].doc = hist[i + 1].doc
    /\ \A k \in DOMAIN hist[i].doc : hist[i].doc[k].map /\ hist[i].doc[k].id # {}

\* the second run created nothing and left the number of the user's Items alone
NoDuplicates(i) ==
    /\ hist[i + 1].created = 0
    /\ hist[i + 1].nitems = hist[i].nitems

\* every id of the document was the id of an Item of the user when call i began
IdsOwnedAtStart(i) == \A k \in DOMAIN hist[i].doc : hist[i].doc[k].id \subseteq hist[i].owned

\* no id of the document was the id of an Item of the user when call i began
IdsAbsentAtStart(i) == \A k \in DOMAIN hist[i].doc : hist[i].doc[k].id \cap hist[i].owned = {}

IdHit(rec, o) == rec.id # {} /\ rec.id \subseteq o.owned

\* the record's scalar fields are values the Item's columns accept
Savable(rec) == \A q \in rec.quantity : q >= 0

\* update or create, as C5 decides it, for record rec with outcome o
UpdateXorCreate(rec, o) ==
    IF IdHit(rec, o)
    THEN /\ o.dupdated = 1 /\ o.dcreated = 0
         /\ ~o.item.adding /\ o.item.id \in rec.id
    ELSE /\ o.dcreated = 1 /\ o.dupdated = 0
         /\ o.item.adding /\ o.item.id \notin rec.id \cup o.owned \cup {NoItem.id}
         /\ (Savable(rec) => ~o.raised /\ o.saved)

\* C5: a JSON record is an update exactly when it carries an id and an Item
\* with that id exists under the importing user; in every other case (no id,
\* unknown id, another user's id) it is a create with a fresh id, and the
\* record is not failed.
C5_UpdateIffOwnId ==
    /\ \A i \in DOMAIN hist :
          hist[i].fmt = "json" =>
              \A k \in DOMAIN hist[i].outcome :
                  hist[i].doc[k].map => UpdateXorCreate(hist[i].doc[k], hist[i].outcome[k])
    /\ \A p \in Procs :
          (req[p].pc # "idle" /\ req[p].fmt = "json") =>
              \A k \in DOMAIN req[p].outcome :
                  req[p].doc[k].map => UpdateXorCreate(req[p].doc[k], req[p].outcome[k])

\* C6: every step of an import by user U that creates or changes an Item
\* leaves that Item owned by U, and the Item was owned by U before if it
\* existed: no Item of another user is created, modified or re-assigned.
C6_ImportStaysWithOwner ==
    [][\A i \in DOMAIN items' :
          (i \notin DOMAIN items \/ items'[i] # items[i]) =>
              \E p \in Procs :
                  /\ req[p].pc = "rec" /\ req'[p] # req[p]
                  /\ items'[i].user = req[p].user
                  /\ (i \in DOMAIN items => items[i].user = req[p].user)]_vars

\* the owner of row id of table tbl is u (a row that is gone has no owner)
OwnerIs(tbl, id, u) == id \in DOMAIN tbl => tbl[id].user = u

\* C7: every Location, Label and Currency an Item refers to is owned by the
\* owner of the Item.
C7_ReferencesOfOwner ==
    /\ \A i \in DOMAIN items :
          /\ \A l \in items[i].location : OwnerIs(refs.Location, l, items[i].user)
          /\ \A c \in items[i].purchase_currency \cup items[i].sold_currency
                          \cup items[i].insured_currency :
                OwnerIs(refs.Currency, c, items[i].user)
    /\ \A x \in item_labels :
          x[1] \in DOMAIN items => OwnerIs(refs.Label, x[2], items[x[1]].user)

\* the entities of a kind that share owner and natural key with entity id
Twins(kind, id) == Matching(refs[kind], refs[kind][id].user, refs[kind][id].key)

\* the entities worker p has resolved for the record in progress
Resolved(r, kind) ==
    CASE kind = "Location" -> r.location
      [] kind = "Label"    -> {r.labels[k] : k \in DOMAIN r.labels}
      [] OTHER             -> r.purchase_currency \cup r.sold_currency \cup r.insured_currency

\* C8: under sequential use, resolving the same (owner, natural key) any
\* number of times creates at most one entity, and an entity that has been
\* resolved is the only one with its owner and key.
C8_OneEntityPerKey ==
    /\ \A kind \in Kinds : \A id \in DOMAIN refs[kind] : Twins(kind, id) = {id}
    /\ \A p \in Procs : \A kind \in Kinds :
          req[p].pc = "rec" =>
              \A id \in Resolved(req[p], kind) :
                  /\ id \in DOMAIN refs[kind]
                  /\ refs[kind][id].user = req[p].user
                  /\ Twins(kind, id) = {id}

\* C9: the store holds at most one Location, Label and Currency per owner
\* and natural key, also when two imports of the same user resolve the same
\* absent key at the same time.
C9_StoreUniquePerKey ==
    \A kind \in Kinds : \A i, j \in DOMAIN refs[kind] :
        (refs[kind][i].user = refs[kind][j].user /\ refs[kind][i].key = refs[kind][j].key)
            => i = j

\* record k of returned call h named the Location "Garage" and was saved
NamedGarage(h) ==
    \E k \in DOMAIN h.outcome :
        /\ ~h.outcome[k].raised
        /\ IF h.fmt = "json" THEN h.doc[k].map /\ h.doc[k].location = {"Garage"}
           ELSE Strip(h.doc[k].Location) = "Garage"

\* two calls of one user have resolved the same Location name, and the user
\* has exactly one Location of that name
C8_Witness ==
    \E i, j \in DOMAIN hist :
        /\ i < j
        /\ hist[i].user = hist[j].user
        /\ Looped(hist[i]) /\ Looped(hist[j])
        /\ NamedGarage(hist[i]) /\ NamedGarage(hist[j])
        /\ Cardinality(Matching(refs.Location, hist[i].user, "Garage")) = 1

\* the logs of ImportLog written for returned call h
LogsOf(h) == {j \in DOMAIN logs : logs[j].call = h.call}

\* the completion policy: the status for the counts of a call
StatusRule(failed, done) ==
    IF failed = 0 THEN "Success"
    ELSE IF done > 0 THEN "Partial Success" ELSE "Failed"

\* C13: an import whose input is a list of records, zero records included,
\* ends with status Success exactly when nothing failed, Partial Success
\* exactly when something failed and something was created or updated, and
\* Failed otherwise, for import_json and import_csv alike.
C13_CompletionPolicy ==
    \A i \in DOMAIN hist :
        LET h == hist[i] IN
        h.payload \in {"list", "rows", "empty"} =>
            /\ LogsOf(h) # {}
            /\ \A j \in LogsOf(h) :
                  logs[j].status = StatusRule(h.failed, h.created + h.updated)

\* the indices of the records that raised, in input order
FailedRows(out) == SelectSeq([k \in 1..Len(out) |-> k], LAMBDA k : out[k].raised)

\* C14: for an import in which n records failed the response carries the
\* first min(n, 10) error strings in input order, and the ImportLog error
\* text holds the same messages, followed by the count n - 10 of the
\* remaining errors exactly when n > 10.
C14_FirstTenErrors ==
    \A i \in DOMAIN hist :
        LET h == hist[i]
            rows == FailedRows(h.outcome)
            n == Len(rows)
        IN  Looped(h) =>
                /\ Len(h.errors) = Min(n, 10)
                /\ \A m \in DOMAIN h.errors :
                      /\ h.errors[m].exc = h.outcome[rows[m]].exc
                      /\ h.fmt = "csv" => h.errors[m].row = rows[m]
                /\ \A j \in LogsOf(h) :
                      /\ logs[j].error_message.msgs = h.errors
                      /\ logs[j].error_message.more = (IF n > 10 THEN n - 10 ELSE 0)

\* a call has returned in which more than ten records failed and at least
\* one was saved; its log counts the errors left out
C14_Witness ==
    \E i \in DOMAIN hist :
        LET h == hist[i] IN
        /\ Looped(h)
        /\ h.failed > 10 /\ h.failed < Len(h.doc)
        /\ Len(h.errors) = 10
        /\ \E j \in LogsOf(h) : logs[j].error_message.more = h.failed - 10

\* the quantity C19 gives a CSV row: 1 for a blank or unparseable cell
CsvQuantity(cell) ==
    IF Strip(cell) # "" /\ cell \in IntTexts /\ IntOf(cell) >= 0
    THEN IntOf(cell) ELSE DefaultQuantity

\* C19: the Quantity cell never fails a CSV row: every row is imported, with
\* quantity 1 when the cell is blank or unparseable and with the integer of
\* the cell otherwise.
C19_QuantityNeverFails ==
    \A i \in DOMAIN hist :
        LET h == hist[i] IN
        (h.fmt = "csv" /\ Looped(h)) =>
            \A k \in DOMAIN h.outcome :
                /\ ~h.outcome[k].raised
                /\ h.outcome[k].saved
                /\ h.outcome[k].item.row.quantity = CsvQuantity(h.doc[k].Quantity)

\* C10: a get_or_create that finds the entity returns that entity and
\* changes no stored attribute: the step binds the existing row and leaves
\* the tables of Locations, Labels and Currencies as they were.
C10_HitLeavesEntity ==
    [][\A p \in Procs :
          (AtOp(p, "get") /\ req'[p] # req[p]) =>
              LET o == Head1(p)
                  m == Matching(refs[o.kind], req[p].user, o.key)
              IN  Cardinality(m) = 1 =>
                      /\ refs' = refs
                      /\ req'[p].pc = "rec"
                      /\ IF o.slot = "labels"
                         THEN /\ Len(req'[p].labels) = Len(req[p].labels) + 1
                              /\ req'[p].labels[Len(req'[p].labels)] \in m
                         ELSE req'[p][o.slot] = m]_vars

\* a record that supplies another colour has resolved an existing Label,
\* which keeps its colour
C10_Witness ==
    \E p \in Procs :
        LET r == req[p] IN
        /\ r.pc = "rec" /\ r.fmt = "json"
        /\ r.labels # << >>
        /\ r.labels[1] \in DOMAIN refs.Label
        /\ refs.Label[r.labels[1]].attr # r.doc[r.idx].labels[1].color
\* C11: no Location, Label or Currency of the store has a blank name or code,
\* whatever CSV or JSON documents have been imported.
C11_NoBlankKey ==
    \A kind \in Kinds : \A id \in DOMAIN refs[kind] : Strip(refs[kind][id].key) # ""

\* the record that worker p1 has just finished, and how it ended
JustDone ==
    /\ req["p1"].pc = "loop"
    /\ req["p1"].outcome # << >>

LastOutcome == req["p1"].outcome[Len(req["p1"].outcome)]

LastRecord == req["p1"].doc[Len(req["p1"].outcome)]

\* the names (codes) of the entities a set of ids refers to
KeysOf(kind, ids) == {refs[kind][id].key : id \in ids \cap DOMAIN refs[kind]}

\* the record that has just finished was a JSON update that raised nothing
UpdatedByJson ==
    /\ JustDone
    /\ req["p1"].fmt = "json"
    /\ ~LastOutcome.raised
    /\ ~LastOutcome.item.adding

\* C12: after a JSON update of an existing item, the item's labels are
\* exactly the labels the record names, and its location and its three
\* currencies are the ones the record names, owned by the caller; a reference
\* the record does not name is cleared on the item.
C12_UpdateReplacesReferences ==
    UpdatedByJson =>
        LET i == LastOutcome.item.id
            rec == LastRecord
            u == req["p1"].user
        IN
        /\ i \in DOMAIN items
        /\ items[i].location \subseteq DOMAIN refs.Location
        /\ KeysOf("Location", items[i].location) = rec.location
        /\ \A l \in items[i].location : refs.Location[l].user = u
        /\ LabelsOf(item_labels, i) \subseteq DOMAIN refs.Label
        /\ KeysOf("Label", LabelsOf(item_labels, i)) = {rec.labels[k].name : k \in DOMAIN rec.labels}
        /\ \A l \in LabelsOf(item_labels, i) : refs.Label[l].user = u
        /\ \A slot \in {"purchase_currency", "sold_currency", "insured_currency"} :
              /\ items[i][slot] \subseteq DOMAIN refs.Currency
              /\ KeysOf("Currency", items[i][slot]) = {c.code : c \in rec[slot]}
              /\ \A c \in items[i][slot] : refs.Currency[c].user = u

\* an update whose record names no reference has cleared the location, the
\* labels and the currencies the item had before
C12_Witness ==
    /\ UpdatedByJson
    /\ LastRecord.location = {}
    /\ LastRecord.labels = << >>
    /\ LastOutcome.before.row.location # {}
    /\ LastOutcome.before.row.purchase_currency # {}
    /\ LastOutcome.before.labels # {}
    /\ items[LastOutcome.item.id].location = {}
    /\ items[LastOutcome.item.id].purchase_currency = {}
    /\ LabelsOf(item_labels, LastOutcome.item.id) = {}

\* C20: a record that is a well-formed row or key-value map never fails:
\* a CSV row that ends before an optional column, a blank or unparseable
\* optional cell, a malformed JSON date or decimal leave the field absent or
\* defaulted and the record is imported.
C20_OptionalDataNeverFails ==
    JustDone /\ (req["p1"].fmt = "json" => LastRecord.map) => ~LastOutcome.raised

TerminalStatus == {"Success", "Partial Success", "Failed"}

\* C15: no step removes a log; a log whose completion time is set is never
\* changed again by an import, an export or a read of the logs; a status
\* changes only from In Progress to a terminal status.
C15_LogLifecycle ==
    [][\A k \in DOMAIN logs :
          /\ k \in DOMAIN logs'
          /\ logs[k].completed_at => logs'[k] = logs[k]
          /\ logs[k].status # logs'[k].status =>
                /\ logs[k].status = "In Progress"
                /\ logs'[k].status \in TerminalStatus]_vars

\* an export log and, after it, the log of an import that has run to its end
C15_Witness ==
    /\ Len(logs) = 2
    /\ logs[1].import_type \in {"CSV Export", "JSON Export"}
    /\ logs[1].completed_at
    /\ logs[2].import_type \in {"CSV Import", "JSON Import"}
    /\ logs[2].completed_at
    /\ logs[2].status \in TerminalStatus
    /\ req["p1"].pc = "idle"

\* the step is a call of export_csv or export_json
ExportReturns ==
    /\ Len(hist') = Len(hist) + 1
    /\ hist'[Len(hist')].payload = "export"

\* C16: a call of export_csv / export_json adds one log, of type CSV Export /
\* JSON Export, with status Success, the three counts 0 and the completion
\* time set, and leaves every other log and the rest of the store as it was.
C16_ExportAddsOneLog ==
    [][ExportReturns =>
          LET h == hist'[Len(hist')] IN
          /\ Len(logs') = Len(logs) + 1
          /\ SubSeq(logs', 1, Len(logs)) = logs
          /\ logs'[Len(logs')].import_type =
                (IF h.fmt = "csv" THEN "CSV Export" ELSE "JSON Export")
          /\ logs'[Len(logs')].user = h.user
          /\ logs'[Len(logs')].status = "Success"
          /\ logs'[Len(logs')].items_created = 0
          /\ logs'[Len(logs')].items_updated = 0
          /\ logs'[Len(logs')].items_failed = 0
          /\ logs'[Len(logs')].completed_at
          /\ UNCHANGED <<items, item_labels, refs, seq, attachments>>]_vars

\* both exports have been called, the second one after the first
C16_Witness ==
    /\ Len(hist) = 2
    /\ hist[1].payload = "export" /\ hist[1].fmt = "json"
    /\ hist[2].payload = "export" /\ hist[2].fmt = "csv"
    /\ Len(logs) = 2
    /\ logs[2].import_type = "CSV Export"

\* the scalar columns of an Item row
Scalars(row) ==
    [name |-> row.name, quantity |-> row.quantity, important |-> row.important,
     purchase_price |-> row.purchase_price, purchase_date |-> row.purchase_date,
     notes |-> row.notes]

\* C17: when import_json has handled a record that export_json wrote, the
\* record has raised nothing, it has updated the exported item, and the
\* scalar values of the item are those it had when it was exported, also for
\* a price of 0 and for absent optional values.
C17_JsonRoundTrip ==
    JustDone /\ req["p1"].fmt = "json" =>
        /\ ~LastOutcome.raised
        /\ ~LastOutcome.item.adding
        /\ LastOutcome.item.id \in DOMAIN items
        /\ Scalars(items[LastOutcome.item.id]) = Scalars(LastOutcome.before.row)

\* the scalar columns, an absent text read as the empty text
CsvScalars(row) ==
    [Scalars(row) EXCEPT !.notes = IF @ = {} THEN {""} ELSE @]

\* the exports whose document, read by import_csv, is the one being imported
Exported == {j \in DOMAIN hist : hist[j].fmt = "csv" /\ CsvRead(hist[j].doc) = req["p1"].doc}

\* C18: when import_csv has handled a row that export_csv or
\* export_items_to_csv wrote, the row has raised nothing and the scalar
\* values of the new item are those of the item the row was written from.
C18_CsvRoundTrip ==
    JustDone /\ req["p1"].fmt = "csv" =>
        \A j \in Exported :
            LET source == SeqOf(hist[j].owned)[Len(req["p1"].outcome)] IN
            /\ ~LastOutcome.raised
            /\ LastOutcome.item.id \in DOMAIN items
            /\ CsvScalars(items[LastOutcome.item.id]) = CsvScalars(items[source])

\* the text the record that has just finished gives for the purchase date
\* ("" when it gives none)
DateTextOf(fmt, rec) ==
    IF fmt = "csv" THEN Strip(rec.Purchase_Date)
    ELSE IF \E v \in rec.purchase_date : v.t = "str"
         THEN (CHOOSE v \in rec.purchase_date : TRUE).s
         ELSE ""

\* the record that has just finished is a row or a map whose purchase date
\* is a text
DatedRecord ==
    /\ JustDone
    /\ req["p1"].fmt = "json" =>
          LastRecord.map /\ \A v \in LastRecord.purchase_date : v.t = "str"
    /\ req["p1"].fmt = "csv" => ~LastRecord.short

\* C21: a record of a CSV or JSON import whose date is written YYYY-MM-DD or
\* MM/DD/YYYY is imported with that calendar date; a text in neither format
\* leaves the date absent; in no case the date fails the record.
C21_BothDateFormats ==
    DatedRecord /\ (req["p1"].fmt = "json" => ~DecimalError(LastRecord)) =>
        LET d == DateTextOf(req["p1"].fmt, LastRecord) IN
        /\ ~LastOutcome.raised
        /\ d \in YmdTexts \cup MdyTexts =>
              items[LastOutcome.item.id].purchase_date = {"2024-03-05"}
        /\ d \in {"soon"} => items[LastOutcome.item.id].purchase_date = {}

\* the record that has just finished is a CSV row with all its cells
FullCsvRow ==
    /\ JustDone
    /\ req["p1"].fmt = "csv"
    /\ ~LastRecord.short

\* C22: a CSV row is never failed by its Important cell, and the item is
\* important exactly when the cell reads yes, true or 1 in any case.
C22_BooleanCells ==
    FullCsvRow =>
        /\ ~LastOutcome.raised
        /\ items[LastOutcome.item.id].important =
              (LastRecord.Important \in {"Yes", "yes", "YES", "True", "true", "TRUE", "1"})

\* a row with the cell "Yes" has been imported as important, and a row with
\* the cell "maybe" as not important
C22_Witness ==
    /\ FullCsvRow
    /\ LastRecord.Important = "Yes"
    /\ items[LastOutcome.item.id].important
    /\ \E i \in DOMAIN hist : hist[i].fmt = "csv" /\ hist[i].doc[1].Important = "maybe"
                               /\ hist[i].created = 1

\* the row of a CSV import that worker p1 is handling
CsvRowInHand ==
    /\ req["p1"].pc = "rec"
    /\ req["p1"].fmt = "csv"

\* the CSV row that has just been imported has the location its cell names
LocationOfRow ==
    JustDone /\ req["p1"].fmt = "csv" /\ ~LastOutcome.raised =>
        LET i == LastOutcome.item.id
            name == Strip(LastRecord.Location)
        IN
        /\ i \in DOMAIN items
        /\ items[i].location \subseteq DOMAIN refs.Location
        /\ name = "" => items[i].location = {}
        /\ name # "" =>
              /\ items[i].location # {}
              /\ \A l \in items[i].location :
                    refs.Location[l].key = name /\ refs.Location[l].user = req["p1"].user

\* a row whose cells other than Location raise nothing
PlainRow(row) ==
    /\ ~row.short
    /\ Strip(row.Quantity) = "" \/ (row.Quantity \in IntTexts /\ IntOf(row.Quantity) >= 0)

\* the file of two rows with the Locations "Garage" and ""
GarageThenBlank(h) ==
    /\ h.fmt = "csv"
    /\ h.payload = "rows"
    /\ Len(h.doc) = 2
    /\ Strip(h.doc[1].Location) = "Garage" /\ PlainRow(h.doc[1])
    /\ Strip(h.doc[2].Location) = "" /\ PlainRow(h.doc[2])

\* a Location is inserted while a CSV row is handled only for the non-blank
\* name of the row's Location cell
LocationOnlyForName ==
    CsvRowInHand /\ DOMAIN refs'.Location # DOMAIN refs.Location =>
        LET row == req["p1"].doc[Len(req["p1"].outcome) + 1] IN
        /\ Strip(row.Location) # ""
        /\ \A l \in DOMAIN refs'.Location \ DOMAIN refs.Location :
              refs'.Location[l].key = Strip(row.Location)

\* C23: a CSV row with a blank Location cell is imported as an item without
\* location and inserts no Location; a row with a non-blank cell gets the
\* caller's Location of that name; the file with the Locations "Garage" and
\* "" ends with two items created and the status Success.
C23_BlankLocation ==
    /\ [](LocationOfRow /\
           \A k \in DOMAIN hist : GarageThenBlank(hist[k]) =>
               /\ hist[k].created = 2
               /\ hist[k].failed = 0
               /\ \A j \in LogsOf(hist[k]) :
                     logs[j].status = "Success" /\ logs[j].items_created = 2)
    /\ [][LocationOnlyForName]_vars

\* the file with the Locations "Garage" and "" has been imported: the first
\* item is in the Garage, the second has no location
C23_Witness ==
    \E k \in DOMAIN hist :
        /\ GarageThenBlank(hist[k])
        /\ hist[k].created = 2
        /\ LogsOf(hist[k]) # {}
        /\ items[hist[k].outcome[1].item.id].location # {}
        /\ items[hist[k].outcome[2].item.id].location = {}

\* the step deletes the Location or Currency id of the table kind
Deletes(kind, id) ==
    /\ id \in DOMAIN refs[kind]
    /\ id \notin DOMAIN refs'[kind]

\* the foreign keys of an Item row to the table kind
SlotsOf(kind) ==
    IF kind = "Location" THEN {"location"}
    ELSE {"purchase_currency", "sold_currency", "insured_currency"}

\* C24: a Location or Currency that Items refer to can be deleted, and the
\* deletion removes no Item: every Item is still there, the references to
\* the deleted row are absent, every other field and the labels are as
\* before.
C24_DeleteSetsNull ==
    /\ [](req["p1"].pc = "idle" =>
             /\ \A id \in DOMAIN refs.Location :
                   ENABLED LocationDestroy("p1", refs.Location[id].user, id)
             /\ \A id \in DOMAIN refs.Currency :
                   ENABLED CurrencyDestroy("p1", refs.Currency[id].user, id))
    /\ [][\A kind \in {"Location", "Currency"} : \A id \in DOMAIN refs[kind] :
             Deletes(kind, id) =>
                 /\ DOMAIN items' = DOMAIN items
                 /\ \A i \in DOMAIN items : \A f \in DOMAIN items[i] :
                       items'[i][f] = IF f \in SlotsOf(kind) THEN items[i][f] \ {id}
                                      ELSE items[i][f]
                 /\ item_labels' = item_labels
                 /\ \A other \in Kinds \ {kind} : refs'[other] = refs[other]]_vars

\* an imported Item has lost its Location and its Currency to deletions: it
\* is still there with its name and its label, the two references absent
C24_Witness ==
    \E i \in DOMAIN items :
        /\ items[i].name = "radio"
        /\ items[i].location = {}
        /\ items[i].purchase_currency = {}
        /\ LabelsOf(item_labels, i) # {}
        /\ \E k \in DOMAIN hist :
              /\ hist[k].fmt = "json"
              /\ hist[k].outcome[1].item.id = i
              /\ hist[k].outcome[1].item.row.location # {}
              /\ hist[k].outcome[1].item.row.purchase_currency # {}

\* C28: in every store the plain endpoints and the imports can produce,
\* rows of one user with the same name or code included, a record whose
\* references are non-blank raises nothing, and the Location, the Labels and
\* the Currencies of the imported Item are rows of the caller with the keys
\* the record names.
C28_ResolveWithDuplicates ==
    JustDone =>
        LET i == LastOutcome.item.id
            u == req["p1"].user
        IN
        /\ ~LastOutcome.raised
        /\ i \in DOMAIN items
        /\ \A l \in items[i].location :
              l \in DOMAIN refs.Location /\ refs.Location[l].user = u
                                          /\ refs.Location[l].key = "Garage"
        /\ items[i].location # {}
        /\ \A l \in LabelsOf(item_labels, i) :
              l \in DOMAIN refs.Label /\ refs.Label[l].user = u /\ refs.Label[l].key = "tag"
        /\ LabelsOf(item_labels, i) # {}

\* worker p1 takes a step of an import call
ImportStep ==
    /\ req["p1"].pc \in {"loop", "rec", "finish"}
    /\ req'["p1"] # req["p1"]

\* C25: a JSON record that updates an Item, whatever it holds under id,
\* created_at, attachments and maintenance_records, updates the Item with
\* the id of the record and leaves its created_at as it was; no step of the
\* import inserts, changes or removes an Attachment or changes the id or
\* the created_at of an Item.
C25_UpdateKeepsServerData ==
    /\ [](UpdatedByJson =>
             /\ LastOutcome.item.id \in LastRecord.id
             /\ LastOutcome.item.id \in DOMAIN items
             /\ items[LastOutcome.item.id].created_at = LastOutcome.before.row.created_at)
    /\ [][ImportStep =>
             /\ attachments' = attachments
             /\ DOMAIN items \subseteq DOMAIN items'
             /\ \A i \in DOMAIN items : items'[i].created_at = items[i].created_at]_vars

\* an Item that had Attachments has been updated by a record that carries
\* the keys created_at, attachments and maintenance_records
C25_Witness ==
    /\ UpdatedByJson
    /\ LastRecord.created_at # {}
    /\ LastRecord.attachments # {}
    /\ LastRecord.maintenance_records # {}
    /\ LastOutcome.before.attachments # {}
    /\ \A x \in LastOutcome.before.attachments : x.id \in DOMAIN attachments
    /\ items[LastOutcome.item.id].name = "radio"

\* the Attachments of Item i that are primary
Primaries(i) == {a \in DOMAIN attachments : attachments[a].item = i /\ attachments[a].is_primary}

\* C29: when no upload and no set_as_primary call is in progress, no Item
\* has two primary Attachments.
C29_OnePrimary ==
    (\A p \in Procs : req[p].pc # "att") =>
        \A i \in DOMAIN items : Cardinality(Primaries(i)) <= 1

\* the records of a call that inserted a new Item / changed an existing one
Inserted(out) == {k \in DOMAIN out : ~out[k].raised /\ out[k].saved /\ out[k].item.adding}

Modified(out) == {k \in DOMAIN out : ~out[k].raised /\ out[k].saved /\ ~out[k].item.adding}

\* C26: when an import call that ran its loop returns, created is the number
\* of records that inserted an Item, updated the number of records that
\* changed an existing Item, failed the number of records that raised, and
\* the three counts add up to the number of records.
C26_CountersMatchStore ==
    \A i \in DOMAIN hist :
        LET h == hist[i] IN
        Looped(h) =>
            /\ h.created = Cardinality(Inserted(h.outcome))
            /\ h.updated = Cardinality(Modified(h.outcome))
            /\ h.failed = NFailed(h.outcome)
            /\ h.created + h.updated + h.failed = Len(h.doc)

\* worker p1 is inside an import_csv call
InCsvCall ==
    /\ req["p1"].fmt = "csv"
    /\ req["p1"].pc \in {"loop", "rec", "finish"}

\* calls i and i+1 import the same CSV file of valid rows for the same user
SameCsvTwice(i) ==
    /\ i + 1 \in DOMAIN hist
    /\ hist[i].fmt = "csv" /\ hist[i + 1].fmt = "csv"
    /\ Looped(hist[i]) /\ Looped(hist[i + 1])
    /\ hist[i].user = hist[i + 1].user
    /\ hist[i].doc = hist[i + 1].doc
    /\ hist[i].failed = 0 /\ hist[i + 1].failed = 0

\* C27: an import_csv call never updates: its updated count is 0, every row
\* that raised nothing inserted an Item that did not exist when the call
\* began, no step of the call changes or removes an Item row that exists or
\* the labels of an Item other than the one being inserted, and the same
\* valid file of k rows imported twice adds 2k Items to the user's Items.
C27_CsvOnlyInserts ==
    /\ [](\A i \in DOMAIN hist :
             LET h == hist[i] IN
             (h.fmt = "csv" /\ Looped(h)) =>
                 /\ h.updated = 0
                 /\ \A j \in LogsOf(h) : logs[j].items_updated = 0
                 /\ \A k \in DOMAIN h.outcome :
                       ~h.outcome[k].raised =>
                           /\ h.outcome[k].item.adding
                           /\ h.outcome[k].item.id \notin h.owned
                           /\ \A m \in DOMAIN h.outcome :
                                 m # k => h.outcome[m].item.id # h.outcome[k].item.id
                 /\ SameCsvTwice(i) =>
                       hist[i + 1].nitems = Cardinality(h.owned) + 2 * Len(h.doc))
    /\ [][InCsvCall =>
             \A i \in DOMAIN items :
                 /\ i \in DOMAIN items'
                 /\ items'[i] = items[i]
                 /\ i # req["p1"].item.id =>
                       LabelsOf(item_labels', i) = LabelsOf(item_labels, i)]_vars

\* the same file of two valid rows has been imported twice by a user who
\* had one Item: the user has five
C27_Witness ==
    /\ Len(hist) = 2
    /\ SameCsvTwice(1)
    /\ Len(hist[1].doc) = 2
    /\ hist[1].created = 2 /\ hist[2].created = 2
    /\ hist[2].nitems = 5
    /\ Cardinality(OwnedBy(items, hist[1].user)) = 5

\* the listing calls that have returned
Listings == {i \in DOMAIN hist : hist[i].payload \in {"location_items", "label_items"}}

\* C30: every row that a per-location or per-label listing returns to a user
\* is an Item of that user.
C30_ListingsOwnOnly ==
    \A i \in Listings :
        \A k \in DOMAIN hist[i].doc : hist[i].doc[k].user = hist[i].user

====
